---- MODULE Spec2Model ----
(***************************************************************************)
(* X-Ray logger: the SDK's buffered transport (src/sdk/transport.py) and   *)
(* the API's /ingest endpoint (src/api/routes.py, src/api/schemas.py).     *)
(*                                                                         *)
(* SpecTransport: one Transport object on one asyncio event loop.  A       *)
(* coroutine runs atomically from one await to the next, so every action   *)
(* is the code between two suspension points.                              *)
(* SpecIngest: the /ingest handler applied to request bodies, one action   *)
(* per request.                                                            *)
(***************************************************************************)
EXTENDS Integers, Sequences, FiniteSets, TLC

\* ------------------------------------------------------------------ bounds
MaxEvents == 4
MaxBuffer == 2
MaxBatch == 2
MaxBatchLen == 4
MaxSchemaLen == 2
MaxPayloadLen == 2
MaxNear == 2
MaxListLen == 4
MaxTicks == 2
MaxWall == 1
MaxWorkers == 3
MaxCalls == 2

\* Values XRayConfig.buffer_size can hold: load_config converts with int()
\* and validates nothing, so 0 is a configurable value.
\* XRayConfig.flush_interval's default, in seconds.
FLUSH_INTERVAL == 5

BufferSizes == 0..MaxBuffer
BatchSizes == 1..MaxBatch

VARIABLES
    config,         \* Transport._config: [base_url, buffer_size, batch_size,
                    \* flush_interval]
    started,        \* Transport._started
    shutdownEvent,  \* Transport._shutdown (asyncio.Event) is set
    queue,          \* Transport._queue, head first
    client,         \* Transport._client is not None
    workerPc,       \* where Transport._worker_task is suspended
    batch,          \* the local `batch` of _collect_batch / _worker_loop
    shutdownPc,     \* where the shutdown() coroutine is suspended
    posts,          \* bodies of the POST /ingest requests issued, in order
    nextId,         \* the event the next send() call carries
    accepted,       \* events for which send() returned True
    sendRet,        \* what the last send() call returned
    postResult,     \* how the last finished POST ended
    returned,       \* a shutdown() has run to its end and no start() since
    op              \* the operation that made the last step

VARIABLES
    tasks,          \* every worker task start() created; _worker_task is the last
    clients,        \* every httpx.AsyncClient start() created, open or closed
    calls           \* the shutdown() calls in progress: where each is suspended

lvars == <<tasks, clients, calls>>

tvars == <<config, started, shutdownEvent, queue, client, workerPc, batch,
           shutdownPc, posts, nextId, accepted, sendRet, postResult,
           returned, op, lvars>>

VARIABLES
    db,             \* the database behind api.store: runs, steps, payloads
    request,        \* the body of the last POST /ingest
    response,       \* the answer to it
    before,         \* db as that request found it
    payloadFails,   \* positions of that request whose payload insert raised
    load            \* one load_config call: what it is given and its outcome

ivars == <<db, request, response, before, payloadFails, load>>

VARIABLES
    value,          \* the obj a summarize_payload call is given
    level,          \* the depth it is given
    summary         \* what the call returned or raised

sumvars == <<value, level, summary>>

VARIABLES
    step,           \* the attributes of the Step, NoStep before __init__
    sent,           \* the events the Step handed to transport.send
    call,           \* the last call made on the Step
    perf_counter_ns,  \* time.perf_counter_ns()
    utcnow          \* the wall clock behind datetime.now(timezone.utc)

stepvars == <<step, sent, call, perf_counter_ns, utcnow>>

svars == <<sumvars, stepvars>>

vars == <<tvars, ivars, svars>>

\* ---------------------------------------------------------------- helpers
\* asyncio.Queue.full(): a queue built with maxsize <= 0 is never full.
QueueFull(q, maxsize) == IF maxsize <= 0 THEN FALSE ELSE Len(q) >= maxsize

\* How a POST can end: 2xx, httpx.RequestError, httpx.HTTPStatusError
\* (raise_for_status on a status >= 400), or any other exception.
PostOutcomes == {"ok", "network_error", "http_error", "other_exception"}
FailedOutcomes == {"network_error", "http_error"}

\* Transport._flush_batch up to its await: TRUE when a POST is issued.
WillPost == client /\ config.base_url

\* ------------------------------------------------- /ingest: data model
\* UUIDs of runs and of steps that requests carry.
RunIds == {"r1", "r2"}
StepIds == {"s1"}
RefIds == {"p1", "p2"}
NoId == "none"

EventTypes == {"run_start", "run_end", "step_start", "step_end"}

\* shared.types.StepType.
StepTypes == {"filter", "rank", "llm", "retrieval", "transform", "other"}

\* Instants a client's wall clock puts into started_at and ended_at.
Times == 0..MaxWall

\* One element of the request array, as JSON: `complete` says that every
\* required field of its kind is present.  A start event carries
\* started_at and an end event ended_at; a step_start carries step_type.
Event(t, i, r, st, p) ==
    [event_type |-> t, id |-> i, run_id |-> r, status |-> st,
     payloads |-> p, complete |-> TRUE,
     step_type |-> IF t = "step_start" THEN "filter" ELSE NoId,
     started_at |-> 0, ended_at |-> 0]

RunStartEvents(P) == {Event("run_start", i, NoId, "running", p) :
                        i \in RunIds, p \in P}
RunEndEvents(S, P) == {Event("run_end", i, NoId, st, p) :
                        i \in RunIds, st \in S, p \in P}
StepStartEvents(P) == {Event("step_start", i, r, NoId, p) :
                        i \in StepIds, r \in RunIds, p \in P}
StepEndEvents(R, S, P) == {Event("step_end", i, r, st, p) :
                        i \in StepIds, r \in R, st \in S, p \in P}

\* The schema-valid elements whose step_end run_id is in R, whose end
\* status is in S and whose _payloads is in P.
ValidEvents(R, S, P) ==
    RunStartEvents(P) \cup RunEndEvents(S, P) \cup StepStartEvents(P)
        \cup StepEndEvents(R, S, P)

\* The four ways an element breaks the schema.
UnknownType == Event("invalid_type", "r1", NoId, "running", {})
MalformedUuid == Event("run_start", "not-a-uuid", NoId, "running", {})
MissingField ==
    [Event("run_start", "r1", NoId, "running", {}) EXCEPT !.complete = FALSE]
IllegalStatus == Event("run_start", "r1", NoId, "invalid_status", {})
InvalidEvents == {UnknownType, MalformedUuid, MissingField, IllegalStatus}

\* schemas.py: the discriminated union IngestEvent accepts an element when
\* its event_type names one of the four models and that model's fields
\* validate (UUID ids, Literal statuses, required fields present).
IsUuid(x) == x \in RunIds \cup StepIds
SchemaValid(e) ==
    /\ e.event_type \in EventTypes
    /\ e.complete
    /\ IsUuid(e.id)
    /\ e.event_type \in {"step_start", "step_end"} => IsUuid(e.run_id)
    /\ e.event_type = "run_start" => e.status = "running"
    /\ e.event_type \in {"run_end", "step_end"} =>
           e.status \in {"success", "error"}

\* ------------------------------------------------------ /ingest: store
\* The nullable columns started_at and ended_at hold {} for NULL and {t}
\* for the instant t.
Absent == [run_id |-> NoId, status |-> "absent"]
EmptyDb == [runs |-> [r \in RunIds |-> "absent"],
            steps |-> [x \in StepIds |-> Absent],
            payloads |-> {},
            started_at |-> [x \in RunIds \cup StepIds |-> {}],
            ended_at |-> [x \in RunIds \cup StepIds |-> {}]]

HasRun(d, i) == i \in RunIds /\ d.runs[i] # "absent"
HasStep(d, i) == i \in StepIds /\ d.steps[i].status # "absent"

\* A handler's outcome: the database it leaves and the text of the exception
\* it raised ("" when it returned).
Done(d) == [db |-> d, error |-> ""]
Raised(d, msg) == [db |-> d, error |-> msg]

\* store.create_run: insert; a second Run with the same id fails.
create_run(d, e) ==
    IF e.id \notin RunIds \/ HasRun(d, e.id)
    THEN Raised(d, "IntegrityError: runs.id")
    ELSE Done([d EXCEPT !.runs[e.id] = e.status,
                        !.started_at[e.id] = {e.started_at}])

\* store.end_run: update; None when no such Run.
end_run(d, e) ==
    IF HasRun(d, e.id)
    THEN [found |-> TRUE, db |-> [d EXCEPT !.runs[e.id] = e.status,
                                           !.ended_at[e.id] = {e.ended_at}]]
    ELSE [found |-> FALSE, db |-> d]

\* store.create_step: insert; the parent Run must exist (foreign key) and
\* the id must be new (primary key).
create_step(d, e) ==
    IF ~HasRun(d, e.run_id)
    THEN Raised(d, "IntegrityError: FOREIGN KEY constraint failed")
    ELSE IF e.id \notin StepIds \/ HasStep(d, e.id)
         THEN Raised(d, "IntegrityError: steps.id")
         ELSE Done([d EXCEPT !.steps[e.id] =
                       [run_id |-> e.run_id, status |-> "running"],
                             !.started_at[e.id] = {e.started_at}])

\* store.end_step: update; None when no such Step, else the stored row.
end_step(d, e) ==
    IF HasStep(d, e.id)
    THEN [found |-> TRUE, db |-> [d EXCEPT !.steps[e.id].status = e.status,
                                           !.ended_at[e.id] = {e.ended_at}],
          run_id |-> d.steps[e.id].run_id]
    ELSE [found |-> FALSE, db |-> d, run_id |-> NoId]

\* store.create_payloads: one row per entry, or an exception and no row.
create_payloads(d, run_id, step_id, phase, payloads, fails) ==
    IF fails
    THEN Raised(d, "payload insert failed")
    ELSE Done([d EXCEPT !.payloads = @ \cup
                 {[run_id |-> run_id, step_id |-> step_id, phase |-> phase,
                   ref_id |-> p] : p \in payloads}])

\* ---------------------------------------------------- /ingest: handlers
\* StorePayloads as it would be without the try block: the exception of
\* create_payloads reaches ingest_events.
StorePayloadsPropagates(d, run_id, step_id, phase, payloads, fails) ==
    IF payloads = {}
    THEN Done(d)
    ELSE create_payloads(d, run_id, step_id, phase, payloads, fails)

\* The `if event.payloads: try ... except Exception: log` tail of a handler.
StorePayloads(d, run_id, step_id, phase, payloads, fails) ==
    IF payloads = {}
    THEN Done(d)
    ELSE Done(create_payloads(d, run_id, step_id, phase, payloads, fails).db)

handle_run_start(d, e, fails) ==
    LET c == create_run(d, e)
    IN  IF c.error # "" THEN c
        ELSE StorePayloads(c.db, e.id, NoId, "input", e.payloads, fails)

\* handle_run_end as it would be were its payloads stored as input.
handle_run_end_as_input(d, e, fails) ==
    LET u == end_run(d, e)
    IN  IF ~u.found THEN Raised(d, "Run " \o e.id \o " not found")
        ELSE StorePayloads(u.db, e.id, NoId, "input", e.payloads, fails)

handle_run_end(d, e, fails) ==
    LET u == end_run(d, e)
    IN  IF ~u.found THEN Raised(d, "Run " \o e.id \o " not found")
        ELSE StorePayloads(u.db, e.id, NoId, "output", e.payloads, fails)

\* handle_step_start as it would be were create_step inside the try block
\* that guards the payloads.
handle_step_start_swallows(d, e, fails) ==
    LET c == create_step(d, e)
    IN  IF c.error # "" THEN Done(d)
        ELSE StorePayloads(c.db, e.run_id, e.id, "input", e.payloads, fails)

handle_step_start(d, e, fails) ==
    LET c == create_step(d, e)
    IN  IF c.error # "" THEN c
        ELSE StorePayloads(c.db, e.run_id, e.id, "input", e.payloads, fails)

\* handle_step_end as it would be were the payloads stored, under the
\* event's run_id, before the result of end_step is looked at.
handle_step_end_payloads_first(d, e, fails) ==
    LET u == end_step(d, e)
        s == StorePayloads(u.db, e.run_id, e.id, "output", e.payloads, fails)
    IN  IF ~u.found THEN Raised(s.db, "Step " \o e.id \o " not found")
        ELSE s

\* handle_step_end as it would be were the payloads stored under the
\* run_id the event carries.
handle_step_end_event_run_id(d, e, fails) ==
    LET u == end_step(d, e)
    IN  IF ~u.found THEN Raised(d, "Step " \o e.id \o " not found")
        ELSE StorePayloads(u.db, e.run_id, e.id, "output", e.payloads, fails)

handle_step_end(d, e, fails) ==
    LET u == end_step(d, e)
    IN  IF ~u.found THEN Raised(d, "Step " \o e.id \o " not found")
        ELSE StorePayloads(u.db, u.run_id, e.id, "output", e.payloads, fails)

\* _process_event: `match event.event_type`.
process_event(d, e, fails) ==
    CASE e.event_type = "run_start" -> handle_run_start(d, e, fails)
      [] e.event_type = "run_end" -> handle_run_end(d, e, fails)
      [] e.event_type = "step_start" -> handle_step_start(d, e, fails)
      [] e.event_type = "step_end" -> handle_step_end(d, e, fails)

\* The EventResult appended for an event whose handler ended with `error`.
EventResult(e, error) ==
    [id |-> e.id, event_type |-> e.event_type, success |-> error = "",
     error |-> error]

\* ProcessFrom as it would be were no result appended for a failed event.
RECURSIVE ProcessFromDropsFailed(_, _, _, _, _)
ProcessFromDropsFailed(d, events, i, failing, results) ==
    IF i > Len(events)
    THEN [db |-> d, results |-> results]
    ELSE LET h == process_event(d, events[i], i \in failing)
         IN  ProcessFromDropsFailed(h.db, events, i + 1, failing,
                 IF h.error = "" THEN Append(results, EventResult(events[i], ""))
                 ELSE results)

\* ProcessFrom as it would be were the first exception to end the dispatch:
\* the events after it are reported failed with the same error.
RECURSIVE ProcessFromAborts(_, _, _, _, _)
ProcessFromAborts(d, events, i, failing, results) ==
    IF i > Len(events)
    THEN [db |-> d, results |-> results]
    ELSE LET h == process_event(d, events[i], i \in failing)
         IN  IF h.error = ""
             THEN ProcessFromAborts(h.db, events, i + 1, failing,
                      Append(results, EventResult(events[i], "")))
             ELSE [db |-> d,
                   results |-> results \o
                       [j \in 1..(Len(events) - i + 1) |->
                           EventResult(events[i + j - 1], h.error)]]

\* The `for event in events` loop of ingest_events from position i on;
\* `failing` holds the positions whose payload insert raises.
RECURSIVE ProcessFrom(_, _, _, _, _)
ProcessFrom(d, events, i, failing, results) ==
    IF i > Len(events)
    THEN [db |-> d, results |-> results]
    ELSE LET h == process_event(d, events[i], i \in failing)
         IN  ProcessFrom(h.db, events, i + 1, failing,
                         Append(results, EventResult(events[i], h.error)))

\* ProcessEvents as it would be were the array walked from its end.
RECURSIVE ProcessBackFrom(_, _, _, _, _)
ProcessBackFrom(d, events, i, failing, results) ==
    IF i < 1
    THEN [db |-> d, results |-> results]
    ELSE LET h == process_event(d, events[i], i \in failing)
         IN  ProcessBackFrom(h.db, events, i - 1, failing,
                             <<EventResult(events[i], h.error)>> \o results)

ProcessEventsReversed(d, events, failing) ==
    ProcessBackFrom(d, events, Len(events), failing, <<>>)

ProcessEvents(d, events, failing) == ProcessFrom(d, events, 1, failing, <<>>)

Succeeded(results) == Cardinality({i \in 1..Len(results) : results[i].success})

\* ingest_events as it would be were each element validated only when the
\* loop reaches it: the events before the first invalid one are dispatched.
ingest_events_lazy(d, events, failing) ==
    LET bad == {i \in 1..Len(events) : ~SchemaValid(events[i])}
        first == CHOOSE i \in bad : \A j \in bad : i <= j
        r == ProcessFrom(d, IF bad = {} THEN events
                            ELSE SubSeq(events, 1, first - 1),
                         1, failing, <<>>)
        succeeded == Cardinality({i \in 1..Len(r.results) : r.results[i].success})
    IN  IF bad # {}
        THEN [db |-> r.db,
              response |-> [status |-> 422, processed |-> 0, succeeded |-> 0,
                            failed |-> 0, results |-> <<>>]]
        ELSE [db |-> r.db,
              response |-> [status |-> 200, processed |-> Len(events),
                            succeeded |-> succeeded,
                            failed |-> Len(events) - succeeded,
                            results |-> r.results]]

\* POST /ingest: FastAPI validates the whole body against list[IngestEvent]
\* and answers 422 before the handler runs; otherwise ingest_events.
ingest_events(d, events, failing) ==
    IF \E i \in 1..Len(events) : ~SchemaValid(events[i])
    THEN [db |-> d,
          response |-> [status |-> 422, processed |-> 0, succeeded |-> 0,
                        failed |-> 0, results |-> <<>>]]
    ELSE LET r == ProcessEvents(d, events, failing)
             succeeded == Succeeded(r.results)
         IN  [db |-> r.db,
              response |-> [status |-> 200, processed |-> Len(events),
                            succeeded |-> succeeded,
                            failed |-> Len(events) - succeeded,
                            results |-> r.results]]

\* ------------------------------------------------ sdk.step: Python values
\* Summarization constants of sdk/step.py.
MAX_STRING_LENGTH == 1024
MAX_DICT_KEYS == 50
MAX_PAYLOAD_DEPTH == 5

ID_FIELDS == <<"id", "_id", "candidate_id", "item_id", "product_id", "doc_id">>
SCORE_FIELDS == <<"score", "rank", "relevance", "confidence", "weight">>
REASON_FIELDS == <<"reason", "explanation", "rationale", "why", "filter_reason">>

\* A Python value is a record tagged with its type: `kind` is
\* type(v).__name__ for the built-in types and "object" for an instance of
\* any other class, whose name is `cls`.
PyNone == [kind |-> "NoneType"]
PyBool(b) == [kind |-> "bool", val |-> b]
PyInt(n) == [kind |-> "int", val |-> n]
\* A float, in thousandths.
PyFloat(n) == [kind |-> "float", val |-> n]
PyStr(s) == [kind |-> "str", val |-> s]
\* A bytes object of n bytes.
PyBytes(n) == [kind |-> "bytes", len |-> n]
\* A list, tuple, set or frozenset with its elements in iteration order.
PySeq(kind, items) == [kind |-> kind, items |-> items]
PyList(items) == PySeq("list", items)
\* A dict with str keys, in insertion order.
PyDict(keys, vals) == [kind |-> "dict", keys |-> keys, vals |-> vals]
\* An instance of class `cls` with the attributes `attrs`.
PyObject(cls, attrs) == [kind |-> "object", cls |-> cls, attrs |-> attrs]

\* type(v).__name__
TypeName(v) == IF v.kind = "object" THEN v.cls ELSE v.kind

\* str(v) for the values an `id` attribute holds here.
PyToStr(v) == IF v.kind = "int" THEN ToString(v.val) ELSE v.val

\* A call's outcome: the value returned, or the exception raised.
Return(v) == [raised |-> "", value |-> v]
Raise(exc) == [raised |-> exc]

\* `field in s` for two strs.
IsSubstring(field, s) ==
    \E i \in 1..(Len(s) - Len(field) + 1) :
        SubSeq(s, i, i + Len(field) - 1) = field

\* `field in item` is defined: item is a container or a str.
SupportsIn(item) ==
    item.kind \in {"dict", "str", "list", "tuple", "set", "frozenset"}

\* `field in item`, for an item that supports it.
Contains(item, field) ==
    CASE item.kind = "dict" ->
            \E i \in 1..Len(item.keys) : item.keys[i] = field
      [] item.kind = "str" -> IsSubstring(field, item.val)
      [] OTHER -> \E i \in 1..Len(item.items) : item.items[i] = PyStr(field)

\* The least of a non-empty set of positions.
Least(S) == CHOOSE i \in S : \A j \in S : i <= j

\* The first of `fields` that is `in item`, "" when none is.
FirstField(fields, item) ==
    LET present == {i \in 1..Len(fields) : Contains(item, fields[i])}
    IN  IF present = {} THEN ""
        ELSE fields[Least(present)]

\* ------------------------------------------------ sdk.step: summarizer
\* The collection keys infer_count looks for in a dict, in its order.
COUNT_KEYS == <<"items", "results", "data", "records", "candidates">>

\* infer_count as it would be were the last matching key taken.
infer_count_last_key(obj) ==
    IF obj.kind \in {"list", "tuple", "set", "frozenset"}
    THEN PyInt(Len(obj.items))
    ELSE LET hits == IF obj.kind # "dict" THEN {}
                     ELSE {i \in 1..Len(COUNT_KEYS) :
                              /\ Contains(obj, COUNT_KEYS[i])
                              /\ obj.vals[COUNT_KEYS[i]].kind
                                     \in {"list", "tuple"}}
         IN  IF hits # {}
             THEN PyInt(Len(obj.vals[COUNT_KEYS[
                     CHOOSE i \in hits : \A j \in hits : j <= i]].items))
             ELSE IF obj.kind = "object" /\ "__len__" \in DOMAIN obj.attrs
                  THEN obj.attrs["__len__"]
                  ELSE PyNone

\* infer_count(obj). A dict without a key that holds a list or a tuple
\* falls through to the __len__ test, which excludes it; so does a str and
\* bytes. An object's __len__ attribute holds what len(obj) returns.
infer_count(obj) ==
    IF obj.kind \in {"list", "tuple", "set", "frozenset"}
    THEN PyInt(Len(obj.items))
    ELSE LET hits == IF obj.kind # "dict" THEN {}
                     ELSE {i \in 1..Len(COUNT_KEYS) :
                              /\ Contains(obj, COUNT_KEYS[i])
                              /\ obj.vals[COUNT_KEYS[i]].kind
                                     \in {"list", "tuple"}}
         IN  IF hits # {}
             THEN PyInt(Len(obj.vals[COUNT_KEYS[Least(hits)]].items))
             ELSE IF obj.kind = "object" /\ "__len__" \in DOMAIN obj.attrs
                  THEN obj.attrs["__len__"]
                  ELSE PyNone

is_candidate_list(obj) ==
    /\ obj.kind \in {"list", "tuple"}
    /\ Len(obj.items) # 0
    /\ \A i \in 1..(IF Len(obj.items) < 3 THEN Len(obj.items) ELSE 3) :
          /\ obj.items[i].kind = "dict"
          /\ \E f \in 1..Len(ID_FIELDS) : Contains(obj.items[i], ID_FIELDS[f])

\* extract_candidate(item): `field in item` raises TypeError on a value that
\* is no container, and item[field] raises it on a str, list, tuple or set.
extract_candidate(item) ==
    IF ~SupportsIn(item)
    THEN Raise("TypeError")
    ELSE LET id == FirstField(ID_FIELDS, item)
             score == FirstField(SCORE_FIELDS, item)
             reason == FirstField(REASON_FIELDS, item)
             found == (IF id = "" THEN {} ELSE {"id"})
                         \cup (IF score = "" THEN {} ELSE {"score"})
         IN  IF item.kind # "dict" /\ (found # {} \/ reason # "")
             THEN Raise("TypeError")
             ELSE Return([k \in found \cup {"reason"} |->
                            CASE k = "id" -> item.vals[id]
                              [] k = "score" -> item.vals[score]
                              [] OTHER -> IF reason = "" THEN PyNone
                                          ELSE item.vals[reason]])

\* _truncate_string as it would be were the string returned whole.
_truncate_string_whole(s, max_length) == s

_truncate_string(s, max_length) ==
    IF Len(s) <= max_length THEN s
    ELSE SubSeq(s, 1, max_length) \o "..."

\* The candidate-list branch of summarize_payload: the list comprehension
\* ends with the first exception extract_candidate raises.
SummarizeCandidates(obj) ==
    LET extracted == [i \in 1..Len(obj.items) |->
                         extract_candidate(obj.items[i])]
        failed == {i \in 1..Len(obj.items) : extracted[i].raised # ""}
    IN  IF failed # {}
        THEN Raise(extracted[Least(failed)].raised)
        ELSE Return([_type |-> "candidates",
                     _count |-> Len(obj.items),
                     _candidates |-> [i \in 1..Len(obj.items) |->
                                         extracted[i].value]])

\* The branch for the other lists, tuples, sets and frozensets.
SummarizeCollection(obj) ==
    IF Len(obj.items) > 0
    THEN Return([_type |-> TypeName(obj), _count |-> Len(obj.items),
                 _item_type |-> TypeName(obj.items[1])])
    ELSE Return([_type |-> TypeName(obj), _count |-> Len(obj.items)])

\* The dict branch: at most MAX_DICT_KEYS keys, scalar values copied,
\* strings truncated, anything else replaced by its type.
SummarizeDict(obj) ==
    LET n == IF Len(obj.keys) < MAX_DICT_KEYS THEN Len(obj.keys)
             ELSE MAX_DICT_KEYS
        keys == SubSeq(obj.keys, 1, n)
        values == [k \in {keys[i] : i \in 1..n} |->
                     LET v == obj.vals[k]
                     IN  IF v.kind \in {"NoneType", "bool", "int", "float"}
                         THEN v
                         ELSE IF v.kind = "str"
                              THEN PyStr(_truncate_string(v.val,
                                                          MAX_STRING_LENGTH))
                              ELSE [_type |-> TypeName(v)]]
    IN  IF Len(obj.keys) > MAX_DICT_KEYS
        THEN Return([_type |-> "dict", _key_count |-> Len(obj.keys),
                     _keys |-> keys, _keys_truncated |-> TRUE,
                     _values |-> values])
        ELSE Return([_type |-> "dict", _key_count |-> Len(obj.keys),
                     _keys |-> keys, _values |-> values])

\* The last branch: the type name, and str(obj.id) when there is an id.
SummarizeObject(obj) ==
    IF "id" \in DOMAIN obj.attrs
    THEN Return([_type |-> TypeName(obj), _id |-> PyToStr(obj.attrs.id)])
    ELSE Return([_type |-> TypeName(obj)])

summarize_payload(obj, depth) ==
    IF depth >= MAX_PAYLOAD_DEPTH
    THEN Return([_type |-> TypeName(obj), _truncated |-> TRUE])
    ELSE IF obj.kind = "NoneType"
    THEN Return([_type |-> "null", _value |-> PyNone])
    ELSE IF obj.kind = "bool"
    THEN Return([_type |-> "bool", _value |-> obj])
    ELSE IF obj.kind \in {"int", "float"}
    THEN Return([_type |-> TypeName(obj), _value |-> obj])
    ELSE IF obj.kind = "str"
    THEN Return([_type |-> "str",
                 _length |-> Len(obj.val),
                 _value |-> PyStr(_truncate_string(obj.val, MAX_STRING_LENGTH)),
                 _truncated |-> Len(obj.val) > MAX_STRING_LENGTH])
    ELSE IF obj.kind = "bytes"
    THEN Return([_type |-> "bytes", _length |-> obj.len])
    ELSE IF is_candidate_list(obj)
    THEN SummarizeCandidates(obj)
    ELSE IF obj.kind \in {"list", "tuple", "set", "frozenset"}
    THEN SummarizeCollection(obj)
    ELSE IF obj.kind = "dict"
    THEN SummarizeDict(obj)
    ELSE SummarizeObject(obj)

\* No summarize_payload call has been made.
NotCalled == [called |-> FALSE]

SummarizerIdle ==
    /\ value = PyNone
    /\ level = 0
    /\ summary = NotCalled

\* ------------------------------------------------ sdk.step: inputs drawn
\* The str of n copies of the character c.
RECURSIVE Repeat(_, _)
Repeat(c, n) ==
    IF n = 0 THEN ""
    ELSE IF n % 2 = 0
         THEN LET half == Repeat(c, n \div 2) IN half \o half
         ELSE c \o Repeat(c, n - 1)

\* Lengths around zero and around MAX_STRING_LENGTH.
StringLengths ==
    (0..MaxNear)
        \cup ((MAX_STRING_LENGTH - MaxNear)..(MAX_STRING_LENGTH + MaxNear))
Strings == {PyStr(Repeat("x", n)) : n \in StringLengths}

Scalars == {PyNone, PyBool(TRUE), PyBool(FALSE), PyInt(42), PyFloat(3140),
            PyBytes(5)}

\* Instances of classes json cannot encode, and objects with an id.
Uuid == PyObject("UUID", <<>>)
Objects == {Uuid, PyObject("Product", [id |-> PyInt(7)]),
            PyObject("User", [id |-> PyStr("u-1")])}

\* Dicts that carry one of ID_FIELDS.
CandidateDicts ==
    {PyDict(<<"id">>, [id |-> PyStr("1")]),
     PyDict(<<"_id", "score", "reason">>,
            [_id |-> PyStr("2"), score |-> PyFloat(900),
             reason |-> PyStr("good match")]),
     PyDict(<<"product_id", "id", "weight", "rank">>,
            [product_id |-> PyStr("5"), id |-> PyInt(6),
             weight |-> PyInt(1), rank |-> PyInt(2)]),
     PyDict(<<"id", "why">>, [id |-> Uuid, why |-> PyStr("seen")])}

\* What else a list holds: a dict without an id field, a number, a str
\* with no field name in it and a str with "id" in it.
OtherItems ==
    {PyDict(<<"name">>, [name |-> PyStr("a")]), PyInt(7), PyStr("ab"),
     PyStr("video")}

Items == CandidateDicts \cup OtherItems

\* Lists and tuples of at most n elements of `pool`.
ListsOf(pool, n) ==
    {PySeq(kind, items) : kind \in {"list", "tuple"},
                          items \in UNION {[1..k -> pool] : k \in 0..n}}

Sets == {PySeq("set", <<PyInt(1), PyInt(2)>>), PySeq("frozenset", <<>>)}

\* A dict of n keys k1 .. kn.
WideDict(n) ==
    LET keys == [i \in 1..n |-> "k" \o ToString(i)]
    IN  PyDict(keys, [k \in {keys[i] : i \in 1..n} |-> PyInt(0)])

Dicts ==
    CandidateDicts
        \cup {PyDict(<<>>, <<>>),
              PyDict(<<"query", "filters", "count", "active", "none", "text",
                       "items">>,
                     [query |-> PyStr("laptop"),
                      filters |-> PyDict(<<"price">>, [price |-> PyInt(1000)]),
                      count |-> PyInt(5), active |-> PyBool(TRUE),
                      none |-> PyNone,
                      text |-> PyStr(Repeat("x", MAX_STRING_LENGTH + 1)),
                      items |-> PyList(<<PyInt(1), PyInt(2)>>)]),
              WideDict(MAX_DICT_KEYS), WideDict(MAX_DICT_KEYS + 1)}

Values ==
    Scalars \cup Strings \cup Objects \cup Sets \cup Dicts
        \cup ListsOf(Items, MaxListLen)

\* The depths summarize_payload is called with: the default, the last one
\* summarized and the first one cut off.
Depths == {0, MAX_PAYLOAD_DEPTH - 1, MAX_PAYLOAD_DEPTH}

\* ---------------------------------------------------- sdk.step: Step
StepStatuses == {"running", "success", "error"}

\* datetime.now(timezone.utc) read when the wall clock shows t.
PyDatetime(t) == [kind |-> "datetime", val |-> t]

\* No Step has been constructed.
NoStep == [constructed |-> FALSE]

\* The last call made on the Step: its name, the exception it raised ("" if
\* it returned) and whether it returned at the already-ended test.
Called(name, exc, ignored) ==
    [name |-> name, raised |-> exc, ignored |-> ignored]

\* The reasoning of a step_end event is the Step's own _reasoning dict, not
\* a copy of it.
SelfReasoning == [ref |-> "self._reasoning"]

\* The dict _send_start_event hands to transport.send.
StartEvent(s) ==
    [event_type |-> "step_start",
     input_summary |-> s._input_summary,
     input_count |-> s._input_count]

\* The dict _send_end_event hands to transport.send.
EndEvent(s) ==
    [event_type |-> "step_end",
     status |-> s._status,
     ended_at |-> s._ended_at,
     duration_ms |-> s._duration_ms,
     output_summary |-> s._output_summary,
     output_count |-> s._output_count,
     reasoning |-> IF DOMAIN s._reasoning = {} THEN PyNone ELSE SelfReasoning,
     error_message |-> s._error_message]

StepIdle ==
    /\ step = NoStep
    /\ sent = <<>>
    /\ call = Called("none", "", FALSE)
    /\ perf_counter_ns = 0
    /\ utcnow = 0

\* ------------------------------------------- api.config and sdk.config
\* A dict is a function from its keys; dict.update(e) on d.
Update(d, e) ==
    [k \in DOMAIN d \cup DOMAIN e |-> IF k \in DOMAIN e THEN e[k] ELSE d[k]]

\* A config_file argument: a path, whether it exists, what YAML it holds.
Path(exists, content) ==
    [kind |-> "path", exists |-> exists, content |-> content]

\* _load_yaml_config(config_file): {} for a path that does not exist.
_load_yaml_config(config_file) ==
    IF ~config_file.exists THEN <<>> ELSE config_file.content

\* The dict `config` of load_config before its type conversions: the YAML
\* file, then each variable of env_mapping that os.getenv returns truthy,
\* then the overrides that are not None.
Merged(env_mapping, config_file, environ, overrides) ==
    LET file == IF config_file = PyNone THEN <<>>
                ELSE _load_yaml_config(config_file)
        env == [k \in {j \in DOMAIN env_mapping :
                          /\ env_mapping[j] \in DOMAIN environ
                          /\ environ[env_mapping[j]] # PyStr("")} |->
                   environ[env_mapping[k]]]
        given == [k \in {j \in DOMAIN overrides : overrides[j] # PyNone} |->
                     overrides[k]]
    IN  Update(Update(file, env), given)

\* The int a str of decimal digits denotes.
IsDigits(s) ==
    /\ Len(s) > 0
    /\ \A i \in 1..Len(s) : \E d \in 0..9 : ToString(d) = SubSeq(s, i, i)
RECURSIVE ParseDigits(_)
ParseDigits(s) ==
    IF Len(s) = 0 THEN 0
    ELSE ParseDigits(SubSeq(s, 1, Len(s) - 1)) * 10
             + (CHOOSE d \in 0..9 : ToString(d) = SubSeq(s, Len(s), Len(s)))

\* int(v) for an int and for a str.
PyIntOf(v) ==
    IF v.kind = "int" THEN Return(v)
    ELSE IF v.kind # "str" THEN Raise("TypeError")
    ELSE IF IsDigits(v.val) THEN Return(PyInt(ParseDigits(v.val)))
    ELSE Raise("ValueError")

\* float(v), in thousandths, for a float, an int and a str of digits with
\* at most one point and three decimals.
PyFloatOf(v) ==
    IF v.kind = "float" THEN Return(v)
    ELSE IF v.kind = "int" THEN Return(PyFloat(v.val * 1000))
    ELSE IF v.kind # "str" THEN Raise("TypeError")
    ELSE LET s == v.val
             points == {i \in 1..Len(s) : SubSeq(s, i, i) = "."}
             p == IF points = {} THEN Len(s) + 1 ELSE Least(points)
             whole == SubSeq(s, 1, p - 1)
             frac == SubSeq(s, p + 1, Len(s))
             scale == <<100, 10, 1>>
         IN  IF /\ IsDigits(whole)
                /\ frac = "" \/ (IsDigits(frac) /\ Len(frac) <= 3)
             THEN Return(PyFloat(
                     ParseDigits(whole) * 1000
                         + IF frac = "" THEN 0
                           ELSE ParseDigits(frac) * scale[Len(frac)]))
             ELSE Raise("ValueError")

\* str.lower() on ASCII.
Lower(s) ==
    LET upper == "ABCDEFGHIJKLMNOPQRSTUVWXYZ"
        lower == "abcdefghijklmnopqrstuvwxyz"
        at(c) == {i \in 1..Len(upper) : SubSeq(upper, i, i) = c}
        char(c) == IF at(c) = {} THEN c
                   ELSE SubSeq(lower, Least(at(c)), Least(at(c)))
        chars == [i \in 1..Len(s) |-> char(SubSeq(s, i, i))]
        RECURSIVE Join(_)
        Join(n) == IF n = 0 THEN "" ELSE Join(n - 1) \o chars[n]
    IN  Join(Len(s))

\* The members of DetailLevel; DetailLevel(v) raises on any other str.
DetailLevel(v) ==
    IF v \in {"summary", "full"}
    THEN Return([kind |-> "DetailLevel", val |-> v])
    ELSE Raise("ValueError")

\* The dataclasses' defaults.
APIConfig ==
    [database_url |-> PyStr("postgresql+asyncpg://localhost:5432/xray"),
     host |-> PyStr("0.0.0.0"), port |-> PyInt(8000), debug |-> PyBool(FALSE)]
XRayConfig ==
    [base_url |-> PyNone, api_key |-> PyNone, buffer_size |-> PyInt(1000),
     flush_interval |-> PyFloat(5000),
     default_detail |-> DetailLevel("summary").value]

\* The first conversion that raises decides; otherwise cls(**config): the
\* keys of the dict over the defaults.
Construct(defaults, cfg, converted) ==
    LET failed == {i \in 1..Len(converted) : converted[i][2].raised # ""}
    IN  IF failed # {} THEN converted[Least(failed)][2]
        ELSE LET conv == [k \in {converted[i][1] : i \in 1..Len(converted)} |->
                             (CHOOSE c \in {converted[i] : i \in 1..Len(converted)} :
                                 c[1] = k)[2].value]
             IN  Return(Update(defaults, Update(cfg, conv)))

\* api.config.load_config(config_file, **overrides) under os.environ.
api_load_config(config_file, environ, overrides) ==
    LET cfg == Merged([database_url |-> "XRAY_DATABASE_URL",
                          host |-> "XRAY_HOST", port |-> "XRAY_PORT",
                          debug |-> "XRAY_DEBUG"],
                         config_file, environ, overrides)
        port == IF "port" \in DOMAIN cfg
                THEN <<<<"port", PyIntOf(cfg.port)>>>> ELSE <<>>
        debug == IF "debug" \in DOMAIN cfg
                 THEN <<<<"debug",
                          IF cfg.debug.kind = "bool"
                          THEN Return(cfg.debug)
                          ELSE Return(PyBool(Lower(PyToStr(cfg.debug))
                                          \in {"true", "1", "yes"}))>>>>
                 ELSE <<>>
    IN  Construct(APIConfig, cfg, port \o debug)

\* sdk.config.load_config(config_file, **overrides) under os.environ.
sdk_load_config(config_file, environ, overrides) ==
    LET cfg == Merged([base_url |-> "XRAY_BASE_URL",
                          api_key |-> "XRAY_API_KEY",
                          buffer_size |-> "XRAY_BUFFER_SIZE",
                          flush_interval |-> "XRAY_FLUSH_INTERVAL",
                          default_detail |-> "XRAY_DEFAULT_DETAIL"],
                         config_file, environ, overrides)
        buffer_size == IF "buffer_size" \in DOMAIN cfg
                       THEN <<<<"buffer_size", PyIntOf(cfg.buffer_size)>>>>
                       ELSE <<>>
        flush_interval ==
            IF "flush_interval" \in DOMAIN cfg
            THEN <<<<"flush_interval", PyFloatOf(cfg.flush_interval)>>>>
            ELSE <<>>
        default_detail ==
            IF "default_detail" \in DOMAIN cfg
                   /\ cfg.default_detail.kind = "str"
            THEN <<<<"default_detail",
                     DetailLevel(cfg.default_detail.val)>>>>
            ELSE <<>>
    IN  Construct(XRayConfig, cfg,
                  buffer_size \o flush_interval \o default_detail)

\* No load_config call has been made.
NotLoaded == [called |-> FALSE]

\* ------------------------------------------------------------------- Init
\* The API side before any request.
NoRequest == [status |-> 0, processed |-> 0, succeeded |-> 0, failed |-> 0,
              results |-> <<>>]

IngestIdle ==
    /\ db = EmptyDb
    /\ request = <<>>
    /\ response = NoRequest
    /\ before = EmptyDb
    /\ payloadFails = {}
    /\ load = NotLoaded

\* shutdown() coroutines that may run at the same time.
Calls == 1..MaxCalls

\* A shutdown() that is not running: not called yet, or over.
NoCall == [pc |-> "idle", task |-> 0, closing |-> 0]

\* Transport.__init__, the configuration apart.
TransportNew ==
    /\ tasks = <<>>
    /\ clients = <<>>
    /\ calls = [c \in Calls |-> NoCall]
    /\ started = FALSE
    /\ shutdownEvent = FALSE
    /\ queue = <<>>
    /\ client = FALSE
    /\ workerPc = "none"
    /\ batch = <<>>
    /\ shutdownPc = "idle"
    /\ posts = <<>>
    /\ nextId = 1
    /\ accepted = {}
    /\ sendRet = FALSE
    /\ postResult = "none"
    /\ returned = FALSE
    /\ op = "init"

InitTransport ==
    /\ IngestIdle
    /\ SummarizerIdle
    /\ StepIdle
    /\ config \in [base_url : BOOLEAN, buffer_size : BufferSizes,
                   batch_size : BatchSizes, flush_interval : {FLUSH_INTERVAL}]
    /\ TransportNew

\* ---------------------------------------------------------------- actions
\* Start as it would be were the client built whatever base_url is.
StartBuildsClient ==
    /\ shutdownPc = "idle"
    /\ op' = "start"
    /\ IF started
       THEN UNCHANGED <<started, shutdownEvent, client, workerPc, batch,
                        returned>>
       ELSE /\ client' = TRUE
            /\ shutdownEvent' = FALSE
            /\ workerPc' = "loop"
            /\ batch' = <<>>
            /\ started' = TRUE
            /\ returned' = FALSE
    /\ UNCHANGED <<ivars, svars, lvars, config, queue, shutdownPc, posts, nextId, accepted,
                   sendRet, postResult>>

\* Transport.start(), called while no shutdown() is in progress.
Start ==
    /\ shutdownPc = "idle"
    /\ op' = "start"
    /\ IF started
       THEN UNCHANGED <<started, shutdownEvent, client, workerPc, batch,
                        returned>>
       ELSE /\ client' = config.base_url
            /\ shutdownEvent' = FALSE
            /\ workerPc' = "loop"
            /\ batch' = <<>>
            /\ started' = TRUE
            /\ returned' = FALSE
    /\ UNCHANGED <<ivars, svars, lvars, config, queue, shutdownPc, posts, nextId, accepted,
                   sendRet, postResult>>

\* Transport.send as it would be were put_nowait never to raise QueueFull.
SendNeverFull ==
    /\ nextId <= MaxEvents
    /\ op' = "send"
    /\ nextId' = nextId + 1
    /\ IF ~started
       THEN /\ sendRet' = FALSE
            /\ UNCHANGED <<queue, accepted>>
       ELSE /\ queue' = Append(queue, nextId)
            /\ accepted' = accepted \cup {nextId}
            /\ sendRet' = TRUE
    /\ UNCHANGED <<ivars, svars, lvars, config, started, shutdownEvent, client,
                   workerPc, batch, shutdownPc, posts, postResult, returned>>

\* Transport.send(event): synchronous, so one step.
Send ==
    /\ nextId <= MaxEvents
    /\ op' = "send"
    /\ nextId' = nextId + 1
    /\ IF ~started
       THEN /\ sendRet' = FALSE
            /\ UNCHANGED <<queue, accepted>>
       ELSE IF QueueFull(queue, config.buffer_size)
            THEN /\ sendRet' = FALSE
                 /\ UNCHANGED <<queue, accepted>>
            ELSE /\ queue' = Append(queue, nextId)
                 /\ accepted' = accepted \cup {nextId}
                 /\ sendRet' = TRUE
    /\ UNCHANGED <<ivars, svars, lvars, config, started, shutdownEvent, client, workerPc, batch,
                   shutdownPc, posts, postResult, returned>>

\* WorkerLoop as it would be were the loop `while True`.
WorkerLoopIgnoresSignal ==
    /\ workerPc = "loop"
    /\ op' = "worker_loop"
    /\ workerPc' = "collect"
    /\ batch' = <<>>
    /\ UNCHANGED <<ivars, svars, lvars, config, started, shutdownEvent, queue, client, shutdownPc,
                   posts, nextId, accepted, sendRet, postResult, returned>>

\* _worker_loop: the `while not self._shutdown.is_set()` test and the entry
\* into _collect_batch.
WorkerLoop ==
    /\ workerPc = "loop"
    /\ op' = "worker_loop"
    /\ IF shutdownEvent
       THEN workerPc' = "done" /\ UNCHANGED batch
       ELSE workerPc' = "collect" /\ batch' = <<>>
    /\ UNCHANGED <<ivars, svars, lvars, config, started, shutdownEvent, queue, client, shutdownPc,
                   posts, nextId, accepted, sendRet, postResult, returned>>

\* CollectGet as it would be were the queue read from its tail.
CollectGetNewest ==
    /\ workerPc = "collect"
    /\ Len(batch) < config.batch_size
    /\ config.flush_interval > 0
    /\ queue # <<>>
    /\ op' = "collect_get"
    /\ batch' = Append(batch, queue[Len(queue)])
    /\ queue' = SubSeq(queue, 1, Len(queue) - 1)
    /\ UNCHANGED <<ivars, svars, lvars, config, started, shutdownEvent, client, workerPc,
                   shutdownPc, posts, nextId, accepted, sendRet, postResult,
                   returned>>

\* _collect_batch: wait_for(self._queue.get()) delivers the head of the
\* queue. With a flush_interval of zero or less the deadline has passed at
\* the loop's first test, and no get is ever made.
CollectGet ==
    /\ workerPc = "collect"
    /\ Len(batch) < config.batch_size
    /\ config.flush_interval > 0
    /\ queue # <<>>
    /\ op' = "collect_get"
    /\ batch' = Append(batch, Head(queue))
    /\ queue' = Tail(queue)
    /\ UNCHANGED <<ivars, svars, lvars, config, started, shutdownEvent, client, workerPc,
                   shutdownPc, posts, nextId, accepted, sendRet, postResult,
                   returned>>

\* WorkerFlush as it would be without _worker_loop's `if batch:`.
WorkerFlushUntested(b) ==
    IF WillPost
    THEN /\ posts' = Append(posts, b)
         /\ workerPc' = "post"
    ELSE /\ workerPc' = "loop"
         /\ UNCHANGED posts

\* _collect_batch returns `b` (the batch is full, the deadline passed or the
\* get timed out) and _worker_loop passes it to _flush_batch when non-empty.
WorkerFlush(b) ==
    IF b # <<>> /\ WillPost
    THEN /\ posts' = Append(posts, b)
         /\ workerPc' = "post"
    ELSE /\ workerPc' = "loop"
         /\ UNCHANGED posts

CollectFull ==
    /\ workerPc = "collect"
    /\ Len(batch) >= config.batch_size
    /\ op' = "collect_full"
    /\ WorkerFlush(batch)
    /\ UNCHANGED <<ivars, svars, lvars, config, started, shutdownEvent, queue, client, batch,
                   shutdownPc, nextId, accepted, sendRet, postResult,
                   returned>>

CollectTimeout ==
    /\ workerPc = "collect"
    /\ Len(batch) < config.batch_size
    /\ op' = "collect_timeout"
    /\ WorkerFlush(batch)
    /\ UNCHANGED <<ivars, svars, lvars, config, started, shutdownEvent, queue, client, batch,
                   shutdownPc, nextId, accepted, sendRet, postResult,
                   returned>>

\* WorkerPostReturn as it would be were a failed batch put back for a retry.
WorkerPostReturnRequeue ==
    /\ workerPc = "post"
    /\ op' = "worker_post_return"
    /\ \E r \in PostOutcomes :
          /\ postResult' = r
          /\ workerPc' = IF r = "other_exception" THEN "sleep" ELSE "loop"
          /\ queue' = IF r \in FailedOutcomes THEN batch \o queue ELSE queue
    /\ UNCHANGED <<ivars, svars, lvars, config, started, shutdownEvent, client, batch,
                   shutdownPc, posts, nextId, accepted, sendRet, returned>>

\* _flush_batch after its await, inside _worker_loop: RequestError and
\* HTTPStatusError are logged there; anything else reaches the loop's
\* `except Exception`, which sleeps one second.
WorkerPostReturn ==
    /\ workerPc = "post"
    /\ op' = "worker_post_return"
    /\ \E r \in PostOutcomes :
          /\ postResult' = r
          /\ workerPc' = IF r = "other_exception" THEN "sleep" ELSE "loop"
    /\ UNCHANGED <<ivars, svars, lvars, config, started, shutdownEvent, queue, client, batch,
                   shutdownPc, posts, nextId, accepted, sendRet, returned>>

\* asyncio.sleep(1.0) in _worker_loop's error branch is over.
WorkerWake ==
    /\ workerPc = "sleep"
    /\ op' = "worker_wake"
    /\ workerPc' = "loop"
    /\ UNCHANGED <<ivars, svars, lvars, config, started, shutdownEvent, queue, client, batch,
                   shutdownPc, posts, nextId, accepted, sendRet, postResult,
                   returned>>

\* Transport.shutdown() up to `await asyncio.wait_for(self._worker_task)`.
ShutdownBegin ==
    /\ shutdownPc = "idle"
    /\ op' = "shutdown_begin"
    /\ IF ~started
       THEN UNCHANGED <<shutdownEvent, shutdownPc>>
       ELSE shutdownEvent' = TRUE /\ shutdownPc' = "wait"
    /\ UNCHANGED <<ivars, svars, lvars, config, started, queue, client, workerPc, batch, posts,
                   nextId, accepted, sendRet, postResult, returned>>

\* ShutdownTimeout as it would be were a worker that sleeps after an error
\* left alone by the cancellation.
ShutdownTimeoutSparesSleeper ==
    /\ shutdownPc = "wait"
    /\ workerPc \in {"loop", "collect", "post"}
    /\ op' = "shutdown_timeout"
    /\ workerPc' = "cancelled"
    /\ UNCHANGED <<ivars, svars, lvars, config, started, shutdownEvent, queue, client, batch,
                   shutdownPc, posts, nextId, accepted, sendRet, postResult,
                   returned>>

\* wait_for times out: the worker is cancelled where it is suspended and
\* its CancelledError is re-raised by _worker_loop.
ShutdownTimeout ==
    /\ shutdownPc = "wait"
    /\ workerPc \in {"loop", "collect", "post", "sleep"}
    /\ op' = "shutdown_timeout"
    /\ workerPc' = "cancelled"
    /\ UNCHANGED <<ivars, svars, lvars, config, started, shutdownEvent, queue, client, batch,
                   shutdownPc, posts, nextId, accepted, sendRet, postResult,
                   returned>>

\* ShutdownDrain as it would be were _started left set during the drain.
ShutdownDrainKeepsStarted ==
    /\ shutdownPc = "wait"
    /\ workerPc \in {"done", "cancelled"}
    /\ op' = "shutdown_drain"
    /\ queue' = <<>>
    /\ IF queue # <<>> /\ WillPost
       THEN /\ posts' = Append(posts, queue)
            /\ shutdownPc' = "post"
            /\ UNCHANGED returned
       ELSE /\ UNCHANGED posts
            /\ IF client
               THEN shutdownPc' = "close" /\ UNCHANGED returned
               ELSE shutdownPc' = "idle" /\ returned' = TRUE
    /\ UNCHANGED <<ivars, svars, lvars, config, started, shutdownEvent, client, workerPc, batch,
                   nextId, accepted, sendRet, postResult>>

\* shutdown() once the worker task is over: clear _started, drain the queue
\* with get_nowait, and flush what was drained.  No await separates these.
ShutdownDrain ==
    /\ shutdownPc = "wait"
    /\ workerPc \in {"done", "cancelled"}
    /\ op' = "shutdown_drain"
    /\ started' = FALSE
    /\ queue' = <<>>
    /\ IF queue # <<>> /\ WillPost
       THEN /\ posts' = Append(posts, queue)
            /\ shutdownPc' = "post"
            /\ UNCHANGED returned
       ELSE /\ UNCHANGED posts
            /\ IF client
               THEN shutdownPc' = "close" /\ UNCHANGED returned
               ELSE shutdownPc' = "idle" /\ returned' = TRUE
    /\ UNCHANGED <<ivars, svars, lvars, config, shutdownEvent, client, workerPc, batch, nextId,
                   accepted, sendRet, postResult>>

\* The final _flush_batch returns or raises; shutdown() logs and goes on.
ShutdownPostReturn ==
    /\ shutdownPc = "post"
    /\ op' = "shutdown_post_return"
    /\ \E r \in PostOutcomes : postResult' = r
    /\ shutdownPc' = "close"
    /\ UNCHANGED <<ivars, svars, lvars, config, started, shutdownEvent, queue, client, workerPc,
                   batch, posts, nextId, accepted, sendRet, returned>>

\* `await self._client.aclose()`, `self._client = None`, and the return.
ShutdownClose ==
    /\ shutdownPc = "close"
    /\ op' = "shutdown_close"
    /\ client' = FALSE
    /\ shutdownPc' = "idle"
    /\ returned' = TRUE
    /\ UNCHANGED <<ivars, svars, lvars, config, started, shutdownEvent, queue, workerPc, batch,
                   posts, nextId, accepted, sendRet, postResult>>

NextTransport ==
    \/ Start
    \/ Send
    \/ WorkerLoop
    \/ CollectGet
    \/ CollectFull
    \/ CollectTimeout
    \/ WorkerPostReturn
    \/ WorkerWake
    \/ ShutdownBegin
    \/ ShutdownTimeout
    \/ ShutdownDrain
    \/ ShutdownPostReturn
    \/ ShutdownClose

SpecTransport == InitTransport /\ [][NextTransport]_vars

\* What shutdown() relies on to make progress: the wait_for timer fires
\* after `timeout`, the event loop resumes shutdown() once the worker task
\* is over, and the HTTP calls it awaits (the final POST, aclose) return.
\* Nothing is assumed of the worker.
FairShutdown ==
    /\ WF_vars(ShutdownTimeout)
    /\ WF_vars(ShutdownDrain)
    /\ WF_vars(ShutdownPostReturn)
    /\ WF_vars(ShutdownClose)

\* A transport configured with the largest buffer and batch, so that the
\* worker can hold a partial batch when shutdown() is called.
InitShutdown ==
    /\ InitTransport
    /\ config.buffer_size = MaxBuffer
    /\ config.batch_size = MaxBatch

SpecShutdown == InitShutdown /\ [][NextTransport]_vars /\ FairShutdown

\* --------------------------------------- transport: overlapping lifecycles
\* start() and shutdown() called from several coroutines: a start() may run
\* while a shutdown() is suspended, and two shutdown() calls may overlap.
\* A worker task is "loop" at the `while` test of _worker_loop, "busy" when
\* suspended inside an iteration, "done" when it returned and "cancelled"
\* when a CancelledError ended it.
Alive(w) == tasks[w] \in {"loop", "busy"}

\* What no step of start(), shutdown() or a worker's life changes here.
others == <<ivars, svars, config, workerPc, batch, shutdownPc, posts, nextId,
            accepted, sendRet, postResult, returned>>

\* Transport.start(): it has no await, so it is one step wherever it runs.
StartAnytime ==
    /\ started \/ Len(tasks) < MaxWorkers
    /\ op' = "start"
    /\ IF started
       THEN UNCHANGED <<started, shutdownEvent, client, tasks, clients>>
       ELSE /\ IF config.base_url
               THEN client' = TRUE /\ clients' = Append(clients, "open")
               ELSE UNCHANGED <<client, clients>>
            /\ shutdownEvent' = FALSE
            /\ tasks' = Append(tasks, "loop")
            /\ started' = TRUE
    /\ UNCHANGED <<others, queue, calls>>

\* _worker_loop of task w at `while not self._shutdown.is_set()`.
TaskLoop(w) ==
    /\ tasks[w] = "loop"
    /\ op' = "worker_loop"
    /\ tasks' = [tasks EXCEPT ![w] = IF shutdownEvent THEN "done" ELSE "busy"]
    /\ UNCHANGED <<others, started, shutdownEvent, queue, client, clients,
                   calls>>

\* One iteration of _worker_loop by task w: _collect_batch takes at most
\* batch_size events from the head of the queue (fewer when its get times
\* out) and _flush_batch disposes of them.
TaskIterate(w) ==
    /\ tasks[w] = "busy"
    /\ op' = "worker_iterate"
    /\ tasks' = [tasks EXCEPT ![w] = "loop"]
    /\ \E k \in 0..config.batch_size :
          /\ k <= Len(queue)
          /\ queue' = SubSeq(queue, k + 1, Len(queue))
    /\ UNCHANGED <<others, started, shutdownEvent, client, clients, calls>>

\* shutdown(), call c, up to `await asyncio.wait_for(self._worker_task)`:
\* the task it waits for is the one _worker_task names now.
ShutdownCall(c) ==
    /\ calls[c].pc = "idle"
    /\ op' = "shutdown_begin"
    /\ IF ~started
       THEN UNCHANGED <<shutdownEvent, calls>>
       ELSE /\ shutdownEvent' = TRUE
            /\ calls' = [calls EXCEPT ![c] = [pc |-> "wait",
                                              task |-> Len(tasks),
                                              closing |-> 0]]
    /\ UNCHANGED <<others, started, queue, client, tasks, clients>>

\* The wait_for of call c times out: wait_for cancels the task it waited
\* for, and shutdown() then cancels and awaits whatever _worker_task names
\* at that moment.
WaitTimeout(c) ==
    /\ calls[c].pc = "wait"
    /\ Alive(calls[c].task)
    /\ op' = "shutdown_timeout"
    /\ tasks' = [w \in DOMAIN tasks |->
                    IF w \in {calls[c].task, Len(tasks)} /\ Alive(w)
                    THEN "cancelled" ELSE tasks[w]]
    /\ calls' = [calls EXCEPT ![c].pc = "cancel"]
    /\ UNCHANGED <<others, started, shutdownEvent, queue, client, clients>>

\* The task call c waits for was cancelled by another shutdown(): wait_for
\* raises its CancelledError, which shutdown() catches nowhere, so the call
\* ends there.
WaitRaises(c) ==
    /\ calls[c].pc = "wait"
    /\ tasks[calls[c].task] = "cancelled"
    /\ op' = "shutdown_raises"
    /\ calls' = [calls EXCEPT ![c] = NoCall]
    /\ UNCHANGED <<others, started, shutdownEvent, queue, client, tasks,
                   clients>>

\* `if self._client: await self._client.aclose()` of call c: the client it
\* closes is the one _client names now; without one, shutdown() returns.
CloseOrReturn(c) ==
    IF client
    THEN [pc |-> "close", task |-> calls[c].task, closing |-> Len(clients)]
    ELSE NoCall

\* Call c resumes once its worker task is over: clear _started, drain the
\* queue, and flush what was drained, up to the next await.
StopAndDrain(c) ==
    /\ \/ calls[c].pc = "wait" /\ tasks[calls[c].task] = "done"
       \/ calls[c].pc = "cancel"
    /\ op' = "shutdown_drain"
    /\ started' = FALSE
    /\ queue' = <<>>
    /\ calls' = [calls EXCEPT ![c] =
                    IF queue # <<>> /\ WillPost
                    THEN [@ EXCEPT !.pc = "post"]
                    ELSE CloseOrReturn(c)]
    /\ UNCHANGED <<others, shutdownEvent, client, tasks, clients>>

\* The final POST of call c returns or raises.
FinalPostReturn(c) ==
    /\ calls[c].pc = "post"
    /\ op' = "shutdown_post_return"
    /\ calls' = [calls EXCEPT ![c] = CloseOrReturn(c)]
    /\ UNCHANGED <<others, started, shutdownEvent, queue, client, tasks,
                   clients>>

\* aclose() of call c returns: the client it was called on is closed, and
\* `self._client = None` clears whatever _client names now.
Close(c) ==
    /\ calls[c].pc = "close"
    /\ op' = "shutdown_close"
    /\ clients' = [clients EXCEPT ![calls[c].closing] = "closed"]
    /\ client' = FALSE
    /\ calls' = [calls EXCEPT ![c] = NoCall]
    /\ UNCHANGED <<others, started, shutdownEvent, queue, tasks>>

NextLifecycle ==
    \/ StartAnytime
    \/ Send
    \/ \E w \in DOMAIN tasks : TaskLoop(w)
    \/ \E w \in DOMAIN tasks : TaskIterate(w)
    \/ \E c \in Calls : ShutdownCall(c)
    \/ \E c \in Calls : WaitTimeout(c)
    \/ \E c \in Calls : WaitRaises(c)
    \/ \E c \in Calls : StopAndDrain(c)
    \/ \E c \in Calls : FinalPostReturn(c)
    \/ \E c \in Calls : Close(c)

SpecLifecycle == InitShutdown /\ [][NextLifecycle]_vars

\* ------------------------------------------------- transport: the worker
\* A transport that is started and never shut down, with the default
\* flush_interval or with none.
InitWorker ==
    /\ IngestIdle
    /\ SummarizerIdle
    /\ StepIdle
    /\ TransportNew
    /\ config \in [base_url : BOOLEAN, buffer_size : {MaxBuffer},
                   batch_size : {MaxBatch},
                   flush_interval : {0, FLUSH_INTERVAL}]

NextWorker ==
    \/ Start
    \/ Send
    \/ WorkerLoop
    \/ CollectGet
    \/ CollectFull
    \/ CollectTimeout
    \/ WorkerPostReturn
    \/ WorkerWake

\* The event loop runs the worker task whenever it can go on: its waits
\* end (the deadline passes, the POST returns or raises, the sleep is
\* over), and a get on a queue that holds an event delivers it at once, so
\* a worker that keeps coming back to a get with events queued gets one.
FairWorker ==
    /\ WF_vars(WorkerLoop)
    /\ SF_vars(CollectGet)
    /\ WF_vars(CollectFull)
    /\ WF_vars(CollectTimeout)
    /\ WF_vars(WorkerPostReturn)
    /\ WF_vars(WorkerWake)

SpecWorker == InitWorker /\ [][NextWorker]_vars /\ FairWorker

\* ---------------------------------------------------- /ingest: requests
\* Request bodies: arrays of at most n elements of `pool`.
Batches(pool, n) == UNION {[1..k -> pool] : k \in 0..n}

\* One POST /ingest with body `events`, from validation to the response.
Ingest(events, failing) ==
    LET r == ingest_events(db, events, failing)
    IN  /\ before' = db
        /\ request' = events
        /\ db' = r.db
        /\ response' = r.response
        /\ payloadFails' = failing
        /\ op' = "ingest"
        /\ UNCHANGED <<svars, lvars, load, config, started, shutdownEvent, queue, client,
                       workerPc, batch, shutdownPc, posts, nextId, accepted,
                       sendRet, postResult, returned>>

\* A client sends a body drawn from `pool`; the server takes one request at
\* a time.
Post(pool, n) ==
    /\ response = NoRequest
    /\ \E events \in Batches(pool, n) : Ingest(events, {})

\* The response has gone out: what belonged to the request is dropped, the
\* database stays.
Respond ==
    /\ response # NoRequest
    /\ request' = <<>>
    /\ response' = NoRequest
    /\ before' = db
    /\ payloadFails' = {}
    /\ op' = "respond"
    /\ UNCHANGED <<svars, lvars, load, db, config, started, shutdownEvent, queue, client,
                   workerPc, batch, shutdownPc, posts, nextId, accepted,
                   sendRet, postResult, returned>>

InitIngest ==
    /\ IngestIdle
    /\ SummarizerIdle
    /\ StepIdle
    /\ config = [base_url |-> FALSE, buffer_size |-> MaxBuffer,
                 batch_size |-> MaxBatch, flush_interval |-> FLUSH_INTERVAL]
    /\ TransportNew

\* Lifecycle events without payloads, and one element of an unknown kind.
\* _handle_step_end never reads event.run_id, so one value of it is drawn.
IngestPool == ValidEvents({"r1"}, {"success"}, {{}}) \cup {UnknownType}

NextIngest ==
    \/ Post(IngestPool, MaxBatchLen)
    \/ Respond

SpecIngest == InitIngest /\ [][NextIngest]_vars

\* Every way of breaking the schema, in short bodies.
SchemaPool == ValidEvents(RunIds, {"success", "error"}, {{}}) \cup InvalidEvents

NextSchema ==
    \/ Post(SchemaPool, MaxSchemaLen)
    \/ Respond

SpecSchema == InitIngest /\ [][NextSchema]_vars

\* Events of one run and its step with every instant a client may send, and
\* events whose status or step_type is outside its enumeration.
FieldPool ==
    {[e EXCEPT !.started_at = t, !.ended_at = t] :
        e \in ValidEvents({"r1"}, {"success"}, {{}}), t \in Times}
    \cup {IllegalStatus,
          Event("run_end", "r1", NoId, "running", {}),
          Event("step_end", "s1", "r1", "invalid_status", {}),
          [Event("step_start", "s1", "r1", NoId, {})
              EXCEPT !.step_type = "invalid_type"]}

NextFields ==
    \/ Post(FieldPool, MaxSchemaLen)
    \/ Respond

SpecFields == InitIngest /\ [][NextFields]_vars

\* Events of one run and its step, with and without externalized payloads,
\* and a step_end of that step that names another run.
PayloadPool ==
    {e \in ValidEvents({"r1"}, {"success"}, {{}, RefIds}) :
        e.id # "r2" /\ e.run_id # "r2"}
    \cup StepEndEvents({"r2"}, {"success"}, {RefIds})

\* A client sends a body drawn from `pool` while the payload inserts of
\* some of its payload-carrying events raise.
PostFailing(pool, n) ==
    /\ response = NoRequest
    /\ \E events \in Batches(pool, n) :
          \E failing \in SUBSET {i \in 1..Len(events) :
                                    events[i].payloads # {}} :
              Ingest(events, failing)

NextPayload ==
    \/ PostFailing(PayloadPool, MaxPayloadLen)
    \/ Respond

SpecPayload == InitIngest /\ [][NextPayload]_vars

\* ---------------------------------------------------- sdk.step: calls
\* Step.__init__(run, transport, name, step_type, input_data, index).
StepNew(input_data) ==
    /\ step = NoStep
    /\ LET s == summarize_payload(input_data, 0)
       IN  IF s.raised # ""
           THEN /\ call' = Called("__init__", s.raised, FALSE)
                /\ UNCHANGED <<step, sent>>
           ELSE LET new == [_reasoning |-> <<>>,
                            _started_at |-> PyDatetime(utcnow),
                            _start_time_ns |-> perf_counter_ns,
                            _ended_at |-> PyNone,
                            _duration_ms |-> PyNone,
                            _input_summary |-> s.value,
                            _input_count |-> infer_count(input_data),
                            _output_summary |-> PyNone,
                            _output_count |-> PyNone,
                            _status |-> "running",
                            _error_message |-> PyNone]
                IN  /\ step' = new
                    /\ sent' = Append(sent, StartEvent(new))
                    /\ call' = Called("__init__", "", FALSE)
    /\ UNCHANGED <<tvars, ivars, sumvars, perf_counter_ns, utcnow>>

\* Step.attach_reasoning(reasoning): a str goes under "explanation", a dict
\* is merged key by key.
AttachReasoning(reasoning) ==
    /\ step # NoStep
    /\ step' = [step EXCEPT !._reasoning =
                   IF reasoning.kind = "str"
                   THEN [k \in DOMAIN @ \cup {"explanation"} |->
                            IF k = "explanation" THEN reasoning ELSE @[k]]
                   ELSE [k \in DOMAIN @ \cup DOMAIN reasoning.vals |->
                            IF k \in DOMAIN reasoning.vals
                            THEN reasoning.vals[k] ELSE @[k]]]
    /\ call' = Called("attach_reasoning", "", FALSE)
    /\ UNCHANGED <<tvars, ivars, sumvars, sent, perf_counter_ns, utcnow>>

\* Timed as it would be were the duration taken from the wall clock.
TimedByWallClock(s) ==
    [s EXCEPT !._ended_at = PyDatetime(utcnow),
              !._duration_ms = PyInt((utcnow - s._started_at.val) * 1000)]

\* The first three statements of end and of end_with_error after the test.
Timed(s) ==
    [s EXCEPT !._ended_at = PyDatetime(utcnow),
              !._duration_ms =
                  PyInt((perf_counter_ns - s._start_time_ns) \div 1000000)]

\* Step.end from `self._ended_at = ...` on: StepStatus(status) raises
\* ValueError on a str that names no member, summarize_payload may raise,
\* and the attributes assigned before the exception stay assigned.
EndBody(output, status) ==
    LET s == summarize_payload(output, 0)
    IN  IF status \notin StepStatuses
        THEN /\ step' = Timed(step)
             /\ call' = Called("end", "ValueError", FALSE)
             /\ UNCHANGED sent
        ELSE IF s.raised # ""
        THEN /\ step' = [Timed(step) EXCEPT !._status = status]
             /\ call' = Called("end", s.raised, FALSE)
             /\ UNCHANGED sent
        ELSE LET ended == [Timed(step) EXCEPT
                              !._status = status,
                              !._output_summary = s.value,
                              !._output_count = infer_count(output)]
             IN  /\ step' = ended
                 /\ sent' = Append(sent, EndEvent(ended))
                 /\ call' = Called("end", "", FALSE)

\* Step.end as it would be without its `if self._ended_at is not None` test.
EndUnguarded(output, status) ==
    /\ step # NoStep
    /\ EndBody(output, status)
    /\ UNCHANGED <<tvars, ivars, sumvars, perf_counter_ns, utcnow>>

\* Step.end(output, status).
End(output, status) ==
    /\ step # NoStep
    /\ IF step._ended_at # PyNone
       THEN /\ call' = Called("end", "", TRUE)
            /\ UNCHANGED <<step, sent>>
       ELSE EndBody(output, status)
    /\ UNCHANGED <<tvars, ivars, sumvars, perf_counter_ns, utcnow>>

\* f"{type(error).__name__}: {error!s}" for an Exception, str(error) for
\* anything else.
ErrorMessage(error) ==
    IF error.kind = "object"
    THEN PyStr(error.cls \o ": " \o error.attrs.message)
    ELSE error

\* Step.end_with_error(error).
EndWithError(error) ==
    /\ step # NoStep
    /\ IF step._ended_at # PyNone
       THEN /\ call' = Called("end_with_error", "", TRUE)
            /\ UNCHANGED <<step, sent>>
       ELSE LET ended == [Timed(step) EXCEPT
                             !._status = "error",
                             !._error_message = ErrorMessage(error)]
            IN  /\ step' = ended
                /\ sent' = Append(sent, EndEvent(ended))
                /\ call' = Called("end_with_error", "", FALSE)
    /\ UNCHANGED <<tvars, ivars, sumvars, perf_counter_ns, utcnow>>

\* Half a millisecond passes on the monotonic clock; the wall clock shows
\* any time.
Tick ==
    /\ perf_counter_ns < MaxTicks * 500000
    /\ perf_counter_ns' = perf_counter_ns + 500000
    /\ utcnow' \in 0..MaxWall
    /\ UNCHANGED <<tvars, ivars, sumvars, step, sent, call>>

\* What the caller passes as input_data and as output.
StepPayloads ==
    {PyNone,
     PyList(<<PyInt(1), PyInt(2)>>),
     PyList(<<PyDict(<<"id">>, [id |-> PyStr("1")])>>),
     PyList(<<PyDict(<<"id">>, [id |-> PyStr("1")]),
              PyDict(<<"id">>, [id |-> PyStr("1")]),
              PyDict(<<"id">>, [id |-> PyStr("1")]), PyInt(7)>>)}

\* The status argument: the members of StepStatus, which are strs, and a
\* str that names no member.
StatusArgs == StepStatuses \cup {"done"}

ErrorArgs == {PyObject("ValueError", [message |-> "something failed"]),
              PyStr("custom error message")}

ReasoningArgs == {PyStr("Filtered items below threshold"),
                  PyDict(<<"method">>, [method |-> PyStr("cosine")])}

InitStep ==
    /\ IngestIdle
    /\ TransportNew
    /\ config = [base_url |-> FALSE, buffer_size |-> MaxBuffer,
                 batch_size |-> MaxBatch, flush_interval |-> FLUSH_INTERVAL]
    /\ SummarizerIdle
    /\ StepIdle

NextStep ==
    \/ \E input_data \in StepPayloads : StepNew(input_data)
    \/ \E reasoning \in ReasoningArgs : AttachReasoning(reasoning)
    \/ \E output \in StepPayloads, status \in StatusArgs : End(output, status)
    \/ \E error \in ErrorArgs : EndWithError(error)
    \/ Tick

SpecStep == InitStep /\ [][NextStep]_vars

\* What infer_count is given: the values of its tests, and beside them a
\* frozenset, a range, a dict with two collection keys, a dict whose first
\* collection key holds a str and one whose only collection key holds a set.
Ints(n) == [i \in 1..n |-> PyInt(i)]
CountPayloads ==
    {PyList(Ints(3)), PyList(<<>>), PySeq("tuple", Ints(2)),
     PySeq("set", Ints(3)), PySeq("frozenset", Ints(1)),
     PyDict(<<"items">>, [items |-> PyList(Ints(3))]),
     PyDict(<<"results">>, [results |-> PyList(Ints(2))]),
     PyDict(<<"data">>, [data |-> PyList(Ints(4))]),
     PyDict(<<"records">>, [records |-> PySeq("tuple", Ints(1))]),
     PyDict(<<"candidates">>, [candidates |-> PyList(Ints(5))]),
     PyDict(<<"a", "b">>, [a |-> PyInt(1), b |-> PyInt(2)]),
     PyStr("hello"), PyInt(42), PyNone, PyBytes(5),
     PyObject("range", [__len__ |-> PyInt(3)]),
     PyObject("User", [id |-> PyStr("u-1")]),
     PyDict(<<"candidates", "results">>,
            [candidates |-> PyList(Ints(1)), results |-> PyList(Ints(2))]),
     PyDict(<<"items", "data">>,
            [items |-> PyStr("ab"), data |-> PyList(Ints(3))]),
     PyDict(<<"records">>, [records |-> PySeq("set", Ints(2))])}

\* Steps constructed and ended over CountPayloads.
NextCount ==
    \/ \E input_data \in CountPayloads : StepNew(input_data)
    \/ \E output \in CountPayloads : End(output, "success")

SpecCount == InitStep /\ [][NextCount]_vars

\* ------------------------------------------- sdk.step: summarizer calls
\* One call summarize_payload(value, level).
Summarize ==
    /\ summary = NotCalled
    /\ summary' = summarize_payload(value, level)
    /\ UNCHANGED <<tvars, ivars, stepvars, value, level>>

InitSummarize ==
    /\ IngestIdle
    /\ TransportNew
    /\ config = [base_url |-> FALSE, buffer_size |-> MaxBuffer,
                 batch_size |-> MaxBatch, flush_interval |-> FLUSH_INTERVAL]
    /\ StepIdle
    /\ value \in Values
    /\ level \in Depths
    /\ summary = NotCalled

NextSummarize == Summarize

SpecSummarize == InitSummarize /\ [][NextSummarize]_vars

\* ------------------------------------------------- load_config calls
\* One call of api.config.load_config.
ApiLoadConfig ==
    /\ ~load.called
    /\ load.side = "api"
    /\ load' = [load EXCEPT
                   !.called = TRUE,
                   !.result = api_load_config(load.config_file, load.environ,
                                              load.overrides)]
    /\ UNCHANGED <<tvars, svars, db, request, response, before, payloadFails>>

\* One call of sdk.config.load_config.
SdkLoadConfig ==
    /\ ~load.called
    /\ load.side = "sdk"
    /\ load' = [load EXCEPT
                   !.called = TRUE,
                   !.result = sdk_load_config(load.config_file, load.environ,
                                              load.overrides)]
    /\ UNCHANGED <<tvars, svars, db, request, response, before, payloadFails>>

\* The dicts that hold, under each key of `options`, one of its values or
\* nothing at all.
Nothing == [kind |-> "nothing"]
DictsOf(options) ==
    LET all == UNION {options[k] : k \in DOMAIN options} \cup {Nothing}
        picks == {f \in [DOMAIN options -> all] :
                     \A k \in DOMAIN options :
                         f[k] \in options[k] \cup {Nothing}}
    IN  {[k \in {j \in DOMAIN f : f[j] # Nothing} |-> f[k]] : f \in picks}

\* No config_file, a path that does not exist, and the files in `files`.
ConfigFiles(files) ==
    {PyNone, Path(FALSE, <<>>)} \cup {Path(TRUE, c) : c \in files}

\* The strs the tests give XRAY_DEBUG.
DebugStrings ==
    {"true", "True", "TRUE", "1", "yes", "Yes",
     "false", "False", "FALSE", "0", "no", "No", ""}

\* What the API's load_config is called with.
ApiLoads ==
    [called : {FALSE}, side : {"api"}, result : {PyNone},
     config_file : ConfigFiles(DictsOf(
         [host |-> {PyStr("localhost")}, port |-> {PyInt(8888)},
          debug |-> {PyBool(TRUE), PyBool(FALSE)}])),
     environ : DictsOf(
         [XRAY_HOST |-> {PyStr("10.0.0.1")},
          XRAY_PORT |-> {PyStr("9999"), PyStr("")},
          XRAY_DEBUG |-> {PyStr(d) : d \in DebugStrings}]),
     overrides : DictsOf(
         [port |-> {PyInt(7000), PyNone},
          debug |-> {PyBool(TRUE), PyBool(FALSE), PyNone}])]

\* What the SDK's load_config is called with.
SdkLoads ==
    [called : {FALSE}, side : {"sdk"}, result : {PyNone},
     config_file : ConfigFiles(DictsOf(
         [base_url |-> {PyStr("http://yaml-url:8000")},
          buffer_size |-> {PyInt(3000)}])),
     environ : DictsOf(
         [XRAY_BASE_URL |-> {PyStr("http://env-url:8080"), PyStr("")},
          XRAY_BUFFER_SIZE |-> {PyStr("999")},
          XRAY_FLUSH_INTERVAL |-> {PyStr("7.5")},
          XRAY_DEFAULT_DETAIL |-> {PyStr("full")}]),
     overrides : DictsOf(
         [base_url |-> {PyStr("http://kwarg-url:9090"), PyNone},
          default_detail |-> {PyStr("full")}])]

InitConfig ==
    /\ TransportNew
    /\ config = [base_url |-> FALSE, buffer_size |-> MaxBuffer,
                 batch_size |-> MaxBatch, flush_interval |-> FLUSH_INTERVAL]
    /\ SummarizerIdle
    /\ StepIdle
    /\ db = EmptyDb
    /\ request = <<>>
    /\ response = NoRequest
    /\ before = EmptyDb
    /\ payloadFails = {}
    /\ load \in ApiLoads \cup SdkLoads

NextConfig ==
    \/ ApiLoadConfig
    \/ SdkLoadConfig

SpecConfig == InitConfig /\ [][NextConfig]_vars

\* ------------------------------------------------- transport: properties
RECURSIVE Flat(_)
Flat(ss) == IF ss = <<>> THEN <<>> ELSE Head(ss) \o Flat(Tail(ss))

Range(s) == {s[i] : i \in 1..Len(s)}

\* Every event POSTed so far, in the order it went out.
Shipped == Flat(posts)

\* The final drain of shutdown() has begun and shutdown() has not returned.
Draining == shutdownPc \in {"post", "close"}

\* C1: send(event) returns true exactly when the transport is started and
\* the queue holds fewer than buffer_size events, and then appends that one
\* event at the tail; otherwise it returns false and leaves the queue as it
\* was.
C1_SendContract ==
    [][op' = "send" =>
         LET ok == started /\ Len(queue) < config.buffer_size
         IN  /\ sendRet' = ok
             /\ ok => queue' = Append(queue, nextId)
             /\ ~ok => queue' = queue]_vars

\* C2: the transport is marked stopped before the final drain takes its
\* first event: while the drain's POST or the client's close is pending, and
\* after shutdown() has returned, the transport is stopped, the queue is
\* empty and a send() returns false.
C2_StoppedBeforeDrain ==
    /\ Draining => ~started /\ queue = <<>>
    /\ returned => ~started /\ queue = <<>>
    /\ (op = "send" /\ (Draining \/ returned)) => ~sendRet /\ queue = <<>>

\* A producer called send() while the final POST was in flight, and a
\* send() came after shutdown() returned with events shipped by the drain.
C2_Witness ==
    /\ op = "send"
    /\ ~sendRet
    /\ posts # <<>>
    /\ shutdownPc = "post"
    /\ accepted # {}

\* C3: shipping order is enqueue order: events are numbered in the order of
\* their send() calls, so the concatenation of all POST bodies, worker
\* batches and the final drain alike, is strictly increasing, and holds only
\* accepted events.
C3_ShippingOrder ==
    /\ \A p, q \in 1..Len(Shipped) : p < q => Shipped[p] < Shipped[q]
    /\ Range(Shipped) \subseteq accepted

\* A worker batch of two events went out, then the final drain shipped more.
C3_Witness ==
    /\ op = "shutdown_drain"
    /\ Len(posts) >= 2
    /\ Len(posts[1]) = 2
    /\ shutdownPc = "post"

\* C4: shipping is fail-open and at-most-once: no event is in two POSTs, no
\* POSTed event is in the queue, send() only ever answers true or false, and
\* a worker POST that ends in a network error or an HTTP status >= 400
\* leaves queue and POST log alone and puts the worker back at the head of
\* its loop.
C4_FailOpenAtMostOnce ==
    /\ [](/\ \A p, q \in 1..Len(Shipped) : Shipped[p] = Shipped[q] => p = q
          /\ Range(Shipped) \cap Range(queue) = {}
          /\ sendRet \in BOOLEAN)
    /\ [][(op' = "worker_post_return" /\ postResult' \in FailedOutcomes) =>
             /\ workerPc' = "loop"
             /\ queue' = queue
             /\ posts' = posts]_vars

\* A worker POST failed while later events wait in the queue.
C4_Witness ==
    /\ op = "worker_post_return"
    /\ postResult \in FailedOutcomes
    /\ workerPc = "loop"
    /\ queue # <<>>
    /\ posts # <<>>

\* C5: in every reachable state the queue holds at most buffer_size events,
\* for any configured buffer_size.
C5_QueueBounded == Len(queue) <= config.buffer_size

\* --------------------------------------------------- /ingest: properties
Remove(seq, i) == SubSeq(seq, 1, i - 1) \o SubSeq(seq, i + 1, Len(seq))

Answered == response.status = 200
Results == response.results

\* The database as the event at position i of the request found it.
DbAt(i) == ProcessEvents(before, SubSeq(request, 1, i - 1), payloadFails).db

\* C6: every schema-valid body, the empty one included, is answered 200
\* with one result per event, in order, carrying the event's id and
\* event_type; processed is the number of events, succeeded the number of
\* results with success true, and succeeded + failed = processed.
C6_ResponseShape ==
    /\ (response # NoRequest /\ \A i \in 1..Len(request) : SchemaValid(request[i]))
           => Answered
    /\ Answered =>
        /\ Len(Results) = Len(request)
        /\ \A i \in 1..Len(request) :
              /\ Results[i].id = request[i].id
              /\ Results[i].event_type = request[i].event_type
        /\ response.processed = Len(request)
        /\ response.succeeded =
              Cardinality({i \in 1..Len(Results) : Results[i].success})
        /\ response.succeeded + response.failed = response.processed

\* A body with successes and a failure has been answered.
C6_Witness ==
    /\ Answered
    /\ response.succeeded >= 2
    /\ response.failed >= 1

\* C7: when the handler of event i raises, result i is success=false with
\* the error text, and the events after it get the results, and the
\* database the content, they would have had without event i in the body.
C7_ErrorIsolation ==
    Answered =>
        \A i \in 1..Len(request) :
            ~Results[i].success =>
                LET without == ProcessEvents(before, Remove(request, i), {})
                IN  /\ Results[i].error # ""
                    /\ \A j \in (i + 1)..Len(request) :
                          Results[j] = without.results[j - 1]
                    /\ db = without.db

\* run_start, then an end event for an id never started, then run_end.
C7_Witness ==
    /\ Answered
    /\ Len(request) = 3
    /\ request[1].event_type = "run_start"
    /\ request[3].event_type = "run_end"
    /\ Results[1].success
    /\ ~Results[2].success
    /\ Results[3].success

\* The request is [run_start R, step_start S of R, step_end S, run_end R].
IsLifecycle(R, S) ==
    /\ Len(request) = 4
    /\ request[1].event_type = "run_start" /\ request[1].id = R
    /\ request[2].event_type = "step_start" /\ request[2].id = S
    /\ request[2].run_id = R
    /\ request[3].event_type = "step_end" /\ request[3].id = S
    /\ request[4].event_type = "run_end" /\ request[4].id = R

\* C8: events are applied one at a time in array order, each seeing the
\* effects of the ones before it: the lifecycle of a new run R with its new
\* step S, sent as one body, succeeds on every event; a step_start placed
\* before the first run_start of its run, unknown until then, fails; and an
\* end event fails when the start it needs only comes later in the body.
C8_ArrayOrder ==
    Answered =>
        /\ \A R \in RunIds, S \in StepIds :
              (IsLifecycle(R, S) /\ ~HasRun(before, R)
                   /\ ~HasStep(before, S))
                  => \A i \in 1..4 : Results[i].success
        /\ \A i \in 1..Len(request) :
              (/\ request[i].event_type = "step_start"
               /\ ~HasRun(before, request[i].run_id)
               /\ \A k \in 1..(i - 1) :
                     ~(request[k].event_type = "run_start"
                       /\ request[k].id = request[i].run_id))
                  => ~Results[i].success
        /\ \A i \in 1..Len(request) :
              (/\ request[i].event_type = "step_end"
               /\ ~HasStep(before, request[i].id)
               /\ \A k \in 1..(i - 1) :
                     ~(request[k].event_type = "step_start"
                       /\ request[k].id = request[i].id))
                  => ~Results[i].success

\* The whole lifecycle of r2 arrived in one body, r1 being stored already,
\* and succeeded.
C8_Witness ==
    /\ Answered
    /\ IsLifecycle("r2", "s1")
    /\ ~HasRun(before, "r2")
    /\ HasRun(before, "r1")
    /\ response.succeeded = 4

\* C9: a body is answered 422 exactly when one of its elements breaks the
\* schema (unknown event_type, missing required field, malformed UUID,
\* illegal status), and then no event of it, valid ones before the invalid
\* one included, is dispatched or persisted.
C9_SchemaAllOrNothing ==
    response # NoRequest =>
        /\ (\E i \in 1..Len(request) : request[i] \in InvalidEvents)
               <=> response.status = 422
        /\ response.status = 422 => db = before /\ Results = <<>>

\* A run_start that would have been stored precedes an illegal status.
C9_Witness ==
    /\ response.status = 422
    /\ Len(request) = 2
    /\ request[1] = Event("run_start", "r2", NoId, "running", {})
    /\ ~HasRun(before, "r2")
    /\ request[2] = IllegalStatus

\* C10: every stored Step refers to a stored Run, and a step_start whose
\* run_id matches no Run stored when it is dispatched is reported failed
\* with a non-empty error and stores no Step.
C10_StepsReferToRuns ==
    /\ \A x \in StepIds : HasStep(db, x) => HasRun(db, db.steps[x].run_id)
    /\ Answered =>
          \A i \in 1..Len(request) :
              (request[i].event_type = "step_start"
                   /\ ~HasRun(DbAt(i), request[i].run_id))
                  => /\ ~Results[i].success
                     /\ Results[i].error # ""
                     /\ DbAt(i + 1).steps = DbAt(i).steps

\* An orphan step_start alone in its body, on a database without its step.
C10_Witness ==
    /\ Answered
    /\ Len(request) = 1
    /\ request[1].event_type = "step_start"
    /\ ~HasStep(before, request[1].id)
    /\ response.failed = 1
    /\ ~HasStep(db, request[1].id)

\* C11: an end event without a prior start is a per-event failure that
\* changes nothing: a run_end whose id has no stored Run when it is
\* dispatched is answered success=false with "Run <id> not found", a
\* step_end whose id has no stored Step with "Step <id> not found", and
\* the runs, steps and payloads are after the event what they were before.
C11_EndWithoutStart ==
    Answered =>
        \A i \in 1..Len(request) :
            /\ (request[i].event_type = "run_end"
                    /\ ~HasRun(DbAt(i), request[i].id))
                   => /\ ~Results[i].success
                      /\ Results[i].error = "Run " \o request[i].id \o " not found"
                      /\ DbAt(i + 1) = DbAt(i)
            /\ (request[i].event_type = "step_end"
                    /\ ~HasStep(DbAt(i), request[i].id))
                   => /\ ~Results[i].success
                      /\ Results[i].error = "Step " \o request[i].id \o " not found"
                      /\ DbAt(i + 1) = DbAt(i)

\* A step_end carrying payloads arrived for a step never started, and a
\* run_end for a run never started came in the same body.
C11_Witness ==
    /\ Answered
    /\ Len(request) = 2
    /\ request[1].event_type = "step_end"
    /\ request[1].payloads # {}
    /\ request[2].event_type = "run_end"
    /\ before = EmptyDb
    /\ response.failed = 2
    /\ db = EmptyDb

\* The primary write of event e succeeds on database d.
PrimaryWritten(d, e) ==
    CASE e.event_type = "run_start" -> create_run(d, e).error = ""
      [] e.event_type = "run_end" -> end_run(d, e).found
      [] e.event_type = "step_start" -> create_step(d, e).error = ""
      [] e.event_type = "step_end" -> end_step(d, e).found

\* The database after the primary write of event e on database d.
PrimaryDb(d, e) ==
    CASE e.event_type = "run_start" -> create_run(d, e).db
      [] e.event_type = "run_end" -> end_run(d, e).db
      [] e.event_type = "step_start" -> create_step(d, e).db
      [] e.event_type = "step_end" -> end_step(d, e).db

\* C12: an event's reported success depends only on its primary row write:
\* for each of the four kinds the event is reported success=true exactly
\* when its create or update of the run or step succeeds, also when the
\* insert of its _payloads raises, and the primary row then stays as
\* written, without any payload row of the failed insert.
C12_PayloadFailureSwallowed ==
    Answered =>
        \A i \in 1..Len(request) :
            /\ Results[i].success <=> PrimaryWritten(DbAt(i), request[i])
            /\ (PrimaryWritten(DbAt(i), request[i]) /\ i \in payloadFails)
                   => DbAt(i + 1) = PrimaryDb(DbAt(i), request[i])

\* A run_start and the step_start of its step both lost their payloads and
\* both are reported succeeded, the rows being stored.
C12_Witness ==
    /\ Answered
    /\ Len(request) = 2
    /\ payloadFails = {1, 2}
    /\ request[1].event_type = "run_start"
    /\ request[2].event_type = "step_start"
    /\ Results[1].success /\ Results[2].success
    /\ HasRun(db, "r1") /\ HasStep(db, "s1")
    /\ db.payloads = {}

\* ---------------------------------------------------- sdk.step: properties
\* The Step exists and end or end_with_error has set its _ended_at.
Ended == step # NoStep /\ step._ended_at # PyNone

\* The positions of `sent` that hold an event of type t.
SentOf(t) == {i \in 1..Len(sent) : sent[i].event_type = t}

\* C13: for any sequence of end() and end_with_error() calls on a Step the
\* transport receives exactly one step_start, sent at construction before
\* any step_end, and at most one step_end; every end()/end_with_error()
\* call on an ended Step leaves status, ended_at, duration_ms,
\* output_summary, output_count and error_message alone and sends nothing.
C13_OneStartOneEnd ==
    /\ [](IF step = NoStep
          THEN sent = <<>>
          ELSE /\ SentOf("step_start") = {1}
               /\ Cardinality(SentOf("step_end")) <= 1)
    /\ [][(Ended /\ call'.name \in {"end", "end_with_error"})
             => /\ step'._status = step._status
                /\ step'._ended_at = step._ended_at
                /\ step'._duration_ms = step._duration_ms
                /\ step'._output_summary = step._output_summary
                /\ step'._output_count = step._output_count
                /\ step'._error_message = step._error_message
                /\ sent' = sent]_vars

\* A Step ended by end() got an end_with_error() call later on.
C13_Witness ==
    /\ Ended
    /\ call = Called("end_with_error", "", TRUE)
    /\ step._status = "success"
    /\ step._error_message = PyNone
    /\ Len(sent) = 2

\* C14: in every reachable state of a Step, whatever is passed to end(),
\* status is success or error if and only if ended_at is set.
C14_StatusIffEnded ==
    step # NoStep =>
        (step._status \in {"success", "error"} <=> step._ended_at # PyNone)

\* A summarize_payload call has returned.
Summarized == summary # NotCalled /\ summary.raised = ""

\* C15: summarize_payload never raises, for every input value.
C15_NeverRaises ==
    summary # NotCalled =>
        /\ summary.raised = ""
        /\ "_type" \in DOMAIN summary.value

\* json.dumps accepts v: None, a bool, a number, a str, or a list, tuple or
\* str-keyed dict of such values.
RECURSIVE JsonSerializable(_)
JsonSerializable(v) ==
    CASE v.kind \in {"NoneType", "bool", "int", "float", "str"} -> TRUE
      [] v.kind \in {"list", "tuple"} ->
            \A i \in 1..Len(v.items) : JsonSerializable(v.items[i])
      [] v.kind = "dict" ->
            \A i \in 1..Len(v.keys) : JsonSerializable(v.vals[v.keys[i]])
      [] OTHER -> FALSE

\* The summary m has a _type and every value it took over from the input,
\* under _value, in a _candidates entry or under _values, is one json.dumps
\* accepts.
JsonSummary(m) ==
    /\ "_type" \in DOMAIN m
    /\ "_value" \in DOMAIN m => JsonSerializable(m._value)
    /\ "_candidates" \in DOMAIN m =>
          \A i \in 1..Len(m._candidates) :
              \A k \in DOMAIN m._candidates[i] :
                  JsonSerializable(m._candidates[i][k])
    /\ "_values" \in DOMAIN m =>
          \A k \in DOMAIN m._values :
              "kind" \in DOMAIN m._values[k]
                  => JsonSerializable(m._values[k])

\* C16: for every input value v, what summarize_payload(v) returns is a map
\* with the key _type that is built only from JSON-serializable values.
C16_JsonSummary == Summarized => JsonSummary(summary.value)

\* C17: for every candidate list L, summarize_payload(L) has _type
\* "candidates", _count = len(L) and a _candidates array of len(L) entries,
\* the i-th extracted from L[i].
C17_AllCandidates ==
    (summary # NotCalled /\ level < MAX_PAYLOAD_DEPTH
         /\ is_candidate_list(value))
        => /\ summary.raised = ""
           /\ summary.value._type = "candidates"
           /\ summary.value._count = Len(value.items)
           /\ Len(summary.value._candidates) = Len(value.items)
           /\ \A i \in 1..Len(value.items) :
                 Return(summary.value._candidates[i])
                     = extract_candidate(value.items[i])

\* C18: every entry of the _candidates array of a candidates summary
\* carries an id, the value of the first of ID_FIELDS its element has,
\* always a reason key, null when the element has no reason field, and a
\* score key exactly when the element has a score field; this for every
\* element of the list, not only the three that detection looks at.
C18_CandidateEntries ==
    (Summarized /\ "_candidates" \in DOMAIN summary.value) =>
        \A i \in 1..Len(value.items) :
            LET entry == summary.value._candidates[i]
                item == value.items[i]
            IN  /\ "id" \in DOMAIN entry
                /\ entry.id = item.vals[FirstField(ID_FIELDS, item)]
                /\ "reason" \in DOMAIN entry
                /\ entry.reason =
                      IF FirstField(REASON_FIELDS, item) = "" THEN PyNone
                      ELSE item.vals[FirstField(REASON_FIELDS, item)]
                /\ "score" \in DOMAIN entry
                      <=> FirstField(SCORE_FIELDS, item) # ""
                /\ "score" \in DOMAIN entry =>
                      entry.score = item.vals[FirstField(SCORE_FIELDS, item)]

\* C19, as claimed: for every string s, summarize_payload(s) has
\* _length = len(s), _truncated = (len(s) > 1024) and a _value of at most
\* 1024 characters, equal to s when len(s) <= 1024.
C19_ValueWithinLimit ==
    (summary # NotCalled /\ value.kind = "str" /\ level < MAX_PAYLOAD_DEPTH)
        => /\ summary.raised = ""
           /\ summary.value._length = Len(value.val)
           /\ summary.value._truncated = (Len(value.val) > MAX_STRING_LENGTH)
           /\ Len(summary.value._value.val) <= MAX_STRING_LENGTH
           /\ Len(value.val) <= MAX_STRING_LENGTH
                 => summary.value._value = value

\* C19, amended: for every string s, summarize_payload(s) has
\* _length = len(s) and _truncated = (len(s) > 1024), and its _value is s
\* when len(s) <= 1024 and otherwise the first 1024 characters of s followed
\* by the marker "...", 1027 characters in all.
C19_StringSummary ==
    (summary # NotCalled /\ value.kind = "str" /\ level < MAX_PAYLOAD_DEPTH)
        => /\ summary.raised = ""
           /\ summary.value._length = Len(value.val)
           /\ summary.value._truncated = (Len(value.val) > MAX_STRING_LENGTH)
           /\ Len(summary.value._value.val)
                 <= MAX_STRING_LENGTH + Len("...")
           /\ Len(value.val) <= MAX_STRING_LENGTH
                 => summary.value._value = value
           /\ Len(value.val) > MAX_STRING_LENGTH
                 => summary.value._value =
                        PyStr(SubSeq(value.val, 1, MAX_STRING_LENGTH) \o "...")

\* A string one character over the limit has been summarized.
C19_Witness ==
    /\ Summarized
    /\ level = 0
    /\ value.kind = "str"
    /\ Len(value.val) = MAX_STRING_LENGTH + 1
    /\ summary.value._truncated
    /\ Len(summary.value._value.val) = MAX_STRING_LENGTH + Len("...")

\* ------------------------------------------- transport: drop on full queue
\* No worker task has been created: start() has not been called.
WorkerNotStarted == workerPc = "none"

\* C20, as claimed: on a transport configured with buffer_size=2 whose
\* worker has not been started, three consecutive send() calls return true,
\* true, false.
C20_UnstartedAcceptsTwo ==
    (config.buffer_size = 2 /\ WorkerNotStarted /\ nextId = 4)
        => accepted = {1, 2} /\ ~sendRet

\* C20, amended: with buffer_size=2, every send() on a transport that has
\* not been started returns false; on a started transport from whose queue
\* nothing has been taken, three consecutive send() calls return true, true,
\* false; send() only ever answers true or false.
C20_DropOnFull ==
    /\ sendRet \in BOOLEAN
    /\ config.buffer_size = 2 =>
        /\ WorkerNotStarted => accepted = {} /\ ~sendRet
        /\ (started /\ nextId = 4 /\ 1 \in accepted
                /\ Range(queue) = accepted)
               => /\ accepted = {1, 2}
                  /\ queue = <<1, 2>>
                  /\ ~sendRet

\* Three send() calls followed start() before the worker ran.
C20_Witness ==
    /\ op = "send"
    /\ config.buffer_size = 2
    /\ started
    /\ workerPc = "loop"
    /\ nextId = 4
    /\ accepted = {1, 2}
    /\ queue = <<1, 2>>
    /\ ~sendRet

\* ------------------------------------------- transport: shutdown terminates
\* C21: shutdown(timeout) always terminates.  Whatever the worker is doing
\* when shutdown() sets the signal and starts to wait for it, shutdown()
\* returns, provided HTTP calls return; and when it has returned the worker
\* task is over (finished or cancelled), the transport is stopped, the
\* queue is drained and the HTTP client is closed.
C21_ShutdownTerminates ==
    /\ [](shutdownPc = "wait" => shutdownEvent)
    /\ [](returned => /\ ~started
                      /\ workerPc \in {"done", "cancelled"}
                      /\ queue = <<>>
                      /\ ~client)
    /\ \A pc \in {"loop", "collect", "post", "sleep"} :
          (shutdownPc = "wait" /\ workerPc = pc)
              ~> (returned /\ shutdownPc = "idle")

\* shutdown() returned after it cancelled a worker that held a partial
\* batch, and after its own final POST.
C21_Witness ==
    /\ returned
    /\ op = "shutdown_close"
    /\ workerPc = "cancelled"
    /\ batch # <<>>
    /\ Len(batch) < config.batch_size
    /\ queue = <<>>
    /\ posts # <<>>

\* ------------------------------------------- transport: one worker, one client
\* The worker tasks that have neither returned nor been cancelled.
AliveTasks == {w \in DOMAIN tasks : Alive(w)}

\* C22: under any sequence and interleaving of start() and shutdown() calls,
\* at most one worker task is alive at any time.
C22_AtMostOneWorker == Cardinality(AliveTasks) <= 1

\* A shutdown() is suspended in aclose() of client i.
Closing(i) == \E c \in Calls : calls[c].pc = "close" /\ calls[c].closing = i

\* C23: for every interleaving of start() and shutdown() calls, whenever the
\* transport is started with a base_url configured it holds an open HTTP
\* client, and every client start() created gets closed by a shutdown: an
\* open client is the one the transport holds or one being closed, and none
\* is open once the transport is stopped with no shutdown() in progress.
C23_ClientLifecycle ==
    /\ (started /\ config.base_url)
           => client /\ clients[Len(clients)] = "open"
    /\ \A i \in DOMAIN clients :
          clients[i] = "open" => (client /\ i = Len(clients)) \/ Closing(i)
    /\ (~started /\ \A c \in Calls : calls[c] = NoCall)
           => \A i \in DOMAIN clients : clients[i] = "closed"

\* --------------------------------------------- transport: the worker's end
\* C24: the worker loop ends only through the shutdown signal or
\* cancellation.  It returns only from its `while` test with the signal
\* set, and is cancelled only by shutdown()'s timeout; a POST that raised
\* an exception sends it to sleep and from there back to the test; and
\* while the signal is set it enters no further batch collection.
C24_WorkerEndsOnSignal ==
    [][/\ (workerPc' = "done" /\ workerPc # "done")
             => shutdownEvent /\ workerPc = "loop"
       /\ (workerPc' = "cancelled" /\ workerPc # "cancelled")
             => op' = "shutdown_timeout"
       /\ (workerPc = "post" /\ workerPc' # "post")
             => /\ workerPc' \in {"loop", "sleep", "cancelled"}
                /\ (op' = "worker_post_return"
                       /\ postResult' = "other_exception")
                      => workerPc' = "sleep"
       /\ (workerPc = "sleep" /\ workerPc' # "sleep")
             => workerPc' \in {"loop", "cancelled"}
       /\ (shutdownEvent /\ workerPc' = "collect")
             => workerPc = "collect"]_vars

\* The worker returned on the signal after a POST of its own had raised an
\* exception that _flush_batch does not catch.
C24_Witness ==
    /\ workerPc = "done"
    /\ shutdownEvent
    /\ postResult = "other_exception"
    /\ shutdownPc = "wait"

\* ----------------------------------------------- sdk.step: late reasoning
\* The reasoning an event handed to the transport carries: _send_end_event
\* puts the Step's own map into the event, not a copy of it.
Carried(e, s) == IF e.reasoning = SelfReasoning THEN s._reasoning ELSE e.reasoning

\* C25: attach_reasoning takes effect only between a Step's start and its
\* end: a call made after the step has ended changes neither the step's
\* reasoning map nor the reasoning carried by the step_end event that was
\* already handed to the transport.
C25_NoLateReasoning ==
    [][(Ended /\ call'.name = "attach_reasoning")
          => /\ step'._reasoning = step._reasoning
             /\ \A i \in SentOf("step_end") :
                   Carried(sent'[i], step') = Carried(sent[i], step)]_vars

\* ------------------------------------------------- /ingest: enumerations
\* The element carries a value outside the enumeration of its field.
IllegalEnum(e) ==
    \/ e.event_type = "run_start" /\ e.status # "running"
    \/ e.event_type \in {"run_end", "step_end"}
          /\ e.status \notin {"success", "error"}
    \/ e.event_type = "step_start" /\ e.step_type \notin StepTypes

\* C26: every illegal enum value is a schema error: a run_start whose
\* status is not "running", a run_end or step_end whose status is not
\* "success" or "error", and a step_start whose step_type is outside
\* StepType each cause HTTP 422 for the whole request.
C26_IllegalEnumIs422 ==
    (response # NoRequest
         /\ \E i \in 1..Len(request) : IllegalEnum(request[i]))
        => response.status = 422

\* ---------------------------------------------------- /ingest: instants
\* C27: after any sequence of ingested batches, every persisted Run and
\* every persisted Step whose ended_at is set satisfies
\* ended_at >= started_at.
C27_EndedAfterStarted ==
    \A x \in RunIds \cup StepIds :
        \A a \in db.started_at[x], b \in db.ended_at[x] : b >= a

\* ------------------------------------------------- sdk.step: duration_ms
\* C28: for every ended Step, duration_ms is the floor, in whole
\* milliseconds, of the monotonic-clock difference between construction
\* and the first end call, hence duration_ms >= 0; later calls leave it
\* alone, and the wall-clock values started_at and ended_at have no part
\* in it.
C28_MonotonicDuration ==
    /\ [](Ended => /\ step._duration_ms.kind = "int"
                   /\ step._duration_ms.val >= 0)
    /\ [][(~Ended /\ Ended')
             => LET ns == perf_counter_ns - step._start_time_ns
                    ms == step'._duration_ms.val
                IN  ms * 1000000 <= ns /\ ns < (ms + 1) * 1000000]_vars
    /\ [][Ended => step'._duration_ms = step._duration_ms]_vars

\* A Step ended half a millisecond after its construction, while the wall
\* clock had stepped backwards: ended_at precedes started_at.
C28_Witness ==
    /\ Ended
    /\ call.name = "end"
    /\ step._ended_at.val < step._started_at.val
    /\ perf_counter_ns - step._start_time_ns = 500000
    /\ step._duration_ms = PyInt(0)

\* ------------------------------------------------ /ingest: payload rows
\* The run that owns the payloads of event e, dispatched on database d: the
\* run itself, the run a step_start names, the run stored with the Step a
\* step_end names.
Owner(d, e) ==
    CASE e.event_type \in {"run_start", "run_end"} -> e.id
      [] e.event_type = "step_start" -> e.run_id
      [] e.event_type = "step_end" -> d.steps[e.id].run_id

\* The Payload rows the _payloads of event e stand for.
Rows(d, e) ==
    {[run_id |-> Owner(d, e),
      step_id |-> IF e.event_type \in {"run_start", "run_end"}
                  THEN NoId ELSE e.id,
      phase |-> IF e.event_type \in {"run_start", "step_start"}
                THEN "input" ELSE "output",
      ref_id |-> p] : p \in e.payloads}

\* The Payload rows that event i of the request added.
NewRows(i) == DbAt(i + 1).payloads \ DbAt(i).payloads

\* C29, as claimed: for every successfully ingested event carrying
\* _payloads, exactly one Payload row is stored per entry, with the same
\* ref_ids, owned by the event's run, with phase input for start events and
\* output for end events, and step_id null for run events and the step's
\* id for step events.
C29_RowPerEntry ==
    Answered =>
        \A i \in 1..Len(request) :
            (Results[i].success /\ request[i].payloads # {})
                => /\ Rows(DbAt(i), request[i]) \subseteq DbAt(i + 1).payloads
                   /\ NewRows(i) \subseteq Rows(DbAt(i), request[i])

\* C29, amended: for every successfully ingested event carrying _payloads
\* whose payload insert does not fail, one Payload row per entry is stored,
\* with the same ref_ids, owned by the event's run (for a step_end, the run
\* stored with the Step), with phase input for start events and output for
\* end events, and step_id null for run events and the step's id for step
\* events; an event whose payload insert fails is still reported succeeded
\* and stores no Payload row; no event stores any other Payload row.
C29_RowPerStoredEntry ==
    Answered =>
        \A i \in 1..Len(request) :
            /\ NewRows(i) \subseteq
                   IF Results[i].success /\ i \notin payloadFails
                   THEN Rows(DbAt(i), request[i]) ELSE {}
            /\ (Results[i].success /\ i \notin payloadFails)
                   => Rows(DbAt(i), request[i]) \subseteq DbAt(i + 1).payloads

\* A run_start and a step_start with two payloads each were stored in one
\* request: four rows, two of the run and two of the step.
C29_Witness ==
    /\ Answered
    /\ before = EmptyDb
    /\ payloadFails = {}
    /\ request = <<Event("run_start", "r1", NoId, "running", RefIds),
                   Event("step_start", "s1", "r1", NoId, RefIds)>>
    /\ response.succeeded = 2
    /\ db.payloads =
          {[run_id |-> "r1", step_id |-> s, phase |-> "input", ref_id |-> p] :
              s \in {NoId, "s1"}, p \in RefIds}

\* C30: payloads of a step_end are recorded under the run_id stored with
\* the Step, not the run_id sent in the event: whatever run_id a step_end
\* of a stored Step carries, its payload rows get the stored Step's run_id,
\* and after any sequence of batches every Payload row with a step_id has
\* the run_id of that Step.
C30_RowsUnderStoredRun ==
    /\ \A row \in db.payloads :
          row.step_id # NoId
              => /\ HasStep(db, row.step_id)
                 /\ row.run_id = db.steps[row.step_id].run_id
    /\ Answered =>
          \A i \in 1..Len(request) :
              (request[i].event_type = "step_end" /\ Results[i].success)
                  => \A row \in NewRows(i) :
                        /\ row.step_id = request[i].id
                        /\ row.run_id = DbAt(i).steps[request[i].id].run_id

\* A step_end that names run r2 ended a Step stored under run r1, and its
\* payloads were stored under r1.
C30_Witness ==
    /\ Answered
    /\ Len(request) = 1
    /\ request[1] = Event("step_end", "s1", "r2", "success", RefIds)
    /\ Results[1].success
    /\ before.steps["s1"].run_id = "r1"
    /\ NewRows(1) =
          {[run_id |-> "r1", step_id |-> "s1", phase |-> "output",
            ref_id |-> p] : p \in RefIds}

\* Value of len(v) for the values that have one here.
PyLen(v) ==
    IF v.kind \in {"list", "tuple", "set", "frozenset"}
    THEN PyInt(Len(v.items))
    ELSE IF v.kind = "str" THEN PyInt(Len(v.val))
    ELSE IF v.kind = "bytes" THEN PyInt(v.len)
    ELSE IF v.kind = "dict" THEN PyInt(Len(v.keys))
    ELSE PyNone

\* The count of v as the claim words it: the first key present decides.
CountAsClaimed(v) ==
    IF v.kind \in {"list", "tuple", "set", "frozenset"} THEN PyLen(v)
    ELSE IF v.kind # "dict" THEN PyNone
    ELSE LET present == {i \in 1..Len(COUNT_KEYS) :
                            Contains(v, COUNT_KEYS[i])}
         IN  IF present = {} THEN PyNone
             ELSE PyLen(v.vals[COUNT_KEYS[Least(present)]])

\* The count of v by cases: a key counts only when it holds a list or a
\* tuple, and an object that defines __len__ has a count.
CountByCases(v) ==
    CASE v.kind \in {"list", "tuple", "set", "frozenset"} -> PyLen(v)
      [] v.kind = "dict" ->
            LET good == {i \in 1..Len(COUNT_KEYS) :
                            /\ Contains(v, COUNT_KEYS[i])
                            /\ v.vals[COUNT_KEYS[i]].kind
                                   \in {"list", "tuple"}}
            IN  IF good = {} THEN PyNone
                ELSE PyLen(v.vals[COUNT_KEYS[Least(good)]])
      [] v.kind = "object" /\ "__len__" \in DOMAIN v.attrs ->
            v.attrs["__len__"]
      [] OTHER -> PyNone

\* The events a constructor and an end() that returned sent carry
\* count(input_data) and count(output).
CountsSent(count(_)) ==
    /\ \A input_data \in CountPayloads :
          StepNew(input_data) /\ call'.raised = ""
              => sent'[Len(sent')].input_count = count(input_data)
    /\ \A output \in CountPayloads :
          End(output, "success") /\ call'.raised = "" /\ ~call'.ignored
              => sent'[Len(sent')].output_count = count(output)

LoadKeys == IF load.side = "api" THEN DOMAIN APIConfig ELSE DOMAIN XRayConfig

\* The environment variable of a setting.
EnvVar(k) ==
    [database_url |-> "XRAY_DATABASE_URL", host |-> "XRAY_HOST",
     port |-> "XRAY_PORT", debug |-> "XRAY_DEBUG",
     base_url |-> "XRAY_BASE_URL", api_key |-> "XRAY_API_KEY",
     buffer_size |-> "XRAY_BUFFER_SIZE",
     flush_interval |-> "XRAY_FLUSH_INTERVAL",
     default_detail |-> "XRAY_DEFAULT_DETAIL"][k]

\* The YAML file of the call as a dict: empty without a config_file and
\* for a path that does not exist.
FileDict ==
    IF load.config_file = PyNone \/ ~load.config_file.exists THEN <<>>
    ELSE load.config_file.content

\* Each setting's winner by the claimed precedence, settings given nowhere
\* left out.
Winners ==
    LET kw(k) == k \in DOMAIN load.overrides /\ load.overrides[k] # PyNone
        env(k) == EnvVar(k) \in DOMAIN load.environ
        yaml(k) == k \in DOMAIN FileDict
    IN  [k \in {j \in LoadKeys : kw(j) \/ env(j) \/ yaml(j)} |->
            IF kw(k) THEN load.overrides[k]
            ELSE IF env(k) THEN load.environ[EnvVar(k)]
            ELSE FileDict[k]]

\* What load_config gives when handed nothing but `overrides`.
LoadOf(overrides) ==
    IF load.side = "api" THEN api_load_config(PyNone, <<>>, overrides)
    ELSE sdk_load_config(PyNone, <<>>, overrides)

\* C32: load_config (SDK and API) resolves each setting on its own as
\* keyword argument > environment variable > YAML file > default, a None
\* keyword counting as not given and a missing file as empty: the call
\* gives what it would give were each setting's winner its only source.
C32_Precedence == load.called => load.result = LoadOf(Winners)

\* C33: with no debug keyword given, XRAY_DEBUG set to true/True/TRUE/1/
\* yes/Yes makes debug True and set to false/False/FALSE/0/no/No or the
\* empty string makes it False, whatever the config file says.
C33_DebugFromEnv ==
    /\ load.called
    /\ load.side = "api"
    /\ "debug" \notin DOMAIN load.overrides \/ load.overrides.debug = PyNone
    /\ "XRAY_DEBUG" \in DOMAIN load.environ
    => /\ load.result.raised = ""
       /\ load.result.value.debug =
              PyBool(load.environ.XRAY_DEBUG.val
                         \in {"true", "True", "TRUE", "1", "yes", "Yes"})

\* The events of a batch are in the order send() accepted them.
InOrder(b) == \A i, j \in 1..Len(b) : i < j => b[i] < b[j]

\* C34: the batch the worker collects never exceeds batch_size and is in
\* dequeue order; once it holds batch_size events neither another get nor
\* the deadline is waited for, the batch is returned; the batch the worker
\* POSTs is the one collected; and no POST body, the worker's or the final
\* drain's, is empty.
C34_BatchesBounded ==
    /\ Len(batch) <= config.batch_size
    /\ InOrder(batch)
    /\ workerPc = "collect" /\ Len(batch) = config.batch_size
           => /\ ~ENABLED CollectGet
              /\ ~ENABLED CollectTimeout
              /\ ENABLED CollectFull
    /\ op \in {"collect_full", "collect_timeout"} /\ workerPc = "post"
           => posts[Len(posts)] = batch
    /\ op = "collect_timeout" => Len(batch) < config.batch_size
    /\ \A i \in 1..Len(posts) : posts[i] # <<>> /\ InOrder(posts[i])

\* The worker has POSTed a batch of batch_size events while more were
\* queued, and an earlier POST went out too.
C34_Witness ==
    /\ op = "collect_full"
    /\ workerPc = "post"
    /\ Len(batch) = MaxBatch
    /\ queue # <<>>
    /\ Len(posts) = 2

\* C35: without a base_url no POST is ever issued and no HTTP client is
\* ever created, while send() on the started transport is refused only by
\* a full queue, and once shutdown() has returned the queue is empty.
C35_NoUrlNoPost ==
    ~config.base_url
        => /\ posts = <<>>
           /\ ~client
           /\ shutdownPc \notin {"post", "close"}
           /\ workerPc # "post"
           /\ op = "send" /\ started /\ ~sendRet
                  => QueueFull(queue, config.buffer_size)
           /\ returned => queue = <<>>

\* Without a base_url events were accepted, the worker took some, and
\* shutdown() has returned with nothing left queued.
C35_Witness ==
    /\ ~config.base_url
    /\ returned
    /\ Cardinality(accepted) = MaxEvents
    /\ batch # <<>>
    /\ op = "shutdown_drain"

\* One attach_reasoning call applied to the map m: a dict is merged key by
\* key over it, a str goes under "explanation".
Attached(m, reasoning) ==
    IF reasoning.kind = "str"
    THEN Update(m, [explanation |-> reasoning])
    ELSE Update(m, reasoning.vals)

\* Every attach_reasoning call on a Step that has not ended applies its
\* argument to the map built so far.
AttachedInOrder ==
    step # NoStep /\ ~Ended /\ step'._reasoning # step._reasoning
        => \E reasoning \in ReasoningArgs :
              step'._reasoning = Attached(step._reasoning, reasoning)

\* A step_end event leaves with the map built so far, or with null when
\* nothing was attached.
EndCarriesAttached ==
    \A i \in (Len(sent) + 1)..Len(sent') :
        sent'[i].event_type = "step_end"
            => Carried(sent'[i], step')
                   = IF DOMAIN step._reasoning = {} THEN PyNone
                     ELSE step._reasoning

\* C36: the reasoning of a step_end event is the result of applying, in
\* call order, the attach_reasoning calls made before the step ended
\* (dicts merged key by key, later values winning, a str under
\* "explanation"), null when there were none: calls build the map in
\* order, the event leaves with it, and what the event carries stays so.
C36_ReasoningAsAttached ==
    [][/\ AttachedInOrder
       /\ EndCarriesAttached
       /\ \A i \in SentOf("step_end") :
             Carried(sent'[i], step') = Carried(sent[i], step)]_vars

\* C38: a Step whose ended_at is set has had its step_end event passed to
\* transport.send, and an end() that raised part-way (an invalid status
\* str, a failure while summarizing the output) has not left the Step
\* marked as ended.
C38_EndIsAtomic ==
    /\ Ended => SentOf("step_end") # {}
    /\ call.name = "end" /\ call.raised # "" => ~Ended

\* C37: with a base_url configured, when shutdown() has returned every
\* event send() accepted is in exactly one POSTed batch, a worker batch or
\* the final drain batch, a worker cancelled on the shutdown timeout with
\* a partly collected batch included.
C37_NoEventVanishes ==
    returned /\ config.base_url
        => \A e \in accepted :
              Cardinality({i \in 1..Len(Shipped) : Shipped[i] = e}) = 1

\* C39: overlapping shutdown() calls never close the HTTP client while a
\* POST is in flight on it: as long as start() has created one client
\* only, no call is in aclose() while another is in its final POST.
C39_NoCloseDuringPost ==
    Len(clients) = 1
        => \A c, d \in Calls :
              ~(calls[c].pc = "post" /\ calls[d].pc = "close")

\* _collect_batch has just returned a batch that holds e to _worker_loop,
\* which flushes it.
Handed(e) ==
    /\ op \in {"collect_full", "collect_timeout"}
    /\ \E i \in 1..Len(batch) : batch[i] = e
    /\ WillPost => \E i \in 1..Len(Shipped) : Shipped[i] = e

\* C40: on a started transport that is never shut down, under a fair
\* event loop and HTTP calls that return, every event send() accepted is
\* eventually taken from the queue and handed to a flush attempt, whether
\* or not more events arrive or a batch fills up.
C40_WorkerFlushesAll ==
    \A e \in 1..MaxEvents :
        (\E i \in 1..Len(queue) : queue[i] = e) ~> Handed(e)

====
